---- MODULE Spec2Model ----
(***************************************************************************)
(* Error classification and revert decoding of the relayer:                *)
(*   ErrorHandler (utils/errorHandler.ts, lines 93-483 of src/allAbis.ts)  *)
(*   decodeError / decodeCallData (utils/decode.ts)                        *)
(*                                                                         *)
(* JavaScript values are modelled as records:                              *)
(*   undefined            [u |-> TRUE]                                     *)
(*   null                 [nul |-> TRUE]                                   *)
(*   a number / bigint    [n |-> 42]                                       *)
(*   a hex string "0x.."  [h |-> "raw", n |-> bytes]                       *)
(*                        [h |-> "enc", sel |-> s, args |-> <<..>>]        *)
(*   any other string     [h |-> "text", s |-> "..."]                      *)
(*   an object            [o |-> "obj", hasData |-> .., data |-> ..,       *)
(*                         json |-> ..]                                    *)
(* A hex string is kept as the ABI term it encodes (selector + argument    *)
(* words); its length and its rendering are computed from the ABI layout.  *)
(***************************************************************************)
EXTENDS Integers, Sequences, FiniteSets, TLC

\* ------------------------------------------------------------------ bounds
\* longest cause chain drawn for the precedence specification
MaxChain == 3
\* longest cause chain drawn for the revert-data specification
MaxDataChain == 1
\* deepest FailedCallWithMessage wrapping of revert data
MaxWrap == 3
\* request handlers that make a call each
NumHandlers == 2
\* longest cause chain drawn for the step-by-step walks
MaxLoop == 3
\* nested calls of walk the engine allows before it raises RangeError
MaxStack == 5

\* ---------------------------------------------------------- JS primitives
Undefined == [u |-> TRUE]
Null == [nul |-> TRUE]
Num(n) == [n |-> n]
Text(s) == [h |-> "text", s |-> s]
Raw(n) == [h |-> "raw", n |-> n]
Enc(sel, args) == [h |-> "enc", sel |-> sel, args |-> args]
Obj(hasData, data, json) == [o |-> "obj", hasData |-> hasData, data |-> data, json |-> json]
\* an object without a prototype, Object.create(null): it has no toString
Bare == [o |-> "bare", hasData |-> FALSE, data |-> Undefined, json |-> TRUE]
\* the exception a failed conversion of a JS value throws
TypeError == [exception |-> "TypeError"]

IsUndefined(v) == "u" \in DOMAIN v
IsNull(v) == "nul" \in DOMAIN v
IsNumber(v) == "n" \in DOMAIN v /\ ~("h" \in DOMAIN v)
IsString(v) == "h" \in DOMAIN v
IsObject(v) == "o" \in DOMAIN v
\* typeof v === 'string' && v.startsWith('0x')
IsHexString(v) == IsString(v) /\ v.h # "text"

\* ABI argument values as viem hands them back: uintN -> bigint, bytes -> hex string
UintArg(v) == [t |-> "uint", v |-> v]
BytesArg(b) == [t |-> "bytes", b |-> b]

\* --------------------------------------------------------------- registry
\* The merged ABI list.  The JSON interface files are not part of the source
\* tree; the entries below stand for the kinds of entry the handler tells
\* apart: the wrapper error, errors with zero, one and two static arguments,
\* a function (which an error lookup must skip), and an error that two
\* contracts declare, so that two entries of the merged list share one
\* selector, and an error with two dynamic arguments.  sel is the 4-byte
\* selector as a number.  An input of at most 48 bits decodes to a JS number,
\* a wider one to a BigInt.
WrapperName == "FailedCallWithMessage"
BattleFactoryABI ==
  << [type |-> "error", name |-> "FailedCall", sel |-> 3, inputs |-> <<>>] >>
ERC2771ForwarderABI ==
  << [type |-> "function", name |-> "execute", sel |-> 9, inputs |-> <<"bytes">>],
     [type |-> "error", name |-> WrapperName, sel |-> 1, inputs |-> <<"bytes">>],
     [type |-> "error", name |-> "ERC2771ForwarderExpiredRequest", sel |-> 2, inputs |-> <<"uint48">>],
     [type |-> "error", name |-> "FailedCall", sel |-> 3, inputs |-> <<>>],
     [type |-> "error", name |-> "ERC2771ForwarderMismatchedValue", sel |-> 4,
      inputs |-> <<"uint256", "uint256">>] >>
MinterABI ==
  << [type |-> "error", name |-> "MintCallsFailed", sel |-> 5, inputs |-> <<"bytes", "bytes">>] >>
\* the spread of the lists of the contracts, in the order of the source
allABIs == BattleFactoryABI \o ERC2771ForwarderABI \o MinterABI

\* --------------------------------------------------------- hex rendering

RECURSIVE NatHex(_)
NatHex(n) ==
  LET HexDigits ==
        <<"0", "1", "2", "3", "4", "5", "6", "7", "8", "9", "a", "b", "c", "d", "e", "f">>
  IN IF n < 16 THEN HexDigits[n + 1] ELSE NatHex(n \div 16) \o HexDigits[(n % 16) + 1]

RECURSIVE Zeros(_)
Zeros(k) == IF k <= 0 THEN "" ELSE "0" \o Zeros(k - 1)

\* one 32-byte word holding n
Word(n) == Zeros(64 - Len(NatHex(n))) \o NatHex(n)
\* the 4 selector bytes
SelHex(sel) == Zeros(8 - Len(NatHex(sel))) \o NatHex(sel)

Ceil32(n) == ((n + 31) \div 32) * 32

\* size in bytes of a hex string
RECURSIVE ByteLen(_)
RECURSIVE ArgsLen(_)
ByteLen(b) ==
  IF b.h = "raw" THEN b.n
  ELSE 4 + ArgsLen(b.args)
ArgsLen(args) ==
  IF args = <<>> THEN 0
  ELSE (IF Head(args).t = "uint" THEN 32 ELSE 64 + Ceil32(ByteLen(Head(args).b)))
       + ArgsLen(Tail(args))

\* String.prototype.length of a hex string: "0x" and two digits per byte
StrLen(b) == 2 + 2 * ByteLen(b)

\* the digits of a hex string after "0x"
RECURSIVE Digits(_)
RECURSIVE TailDigits(_)
RECURSIVE HeadDigits(_, _, _)
Digits(b) ==
  IF b.h = "raw" THEN Zeros(2 * b.n)
  ELSE SelHex(b.sel) \o HeadDigits(b.args, b.args, 32 * Len(b.args)) \o TailDigits(b.args)
\* head part: a static value in place, a dynamic value as the offset of its tail
HeadDigits(args, all, off) ==
  IF args = <<>> THEN ""
  ELSE IF Head(args).t = "uint"
       THEN Word(Head(args).v) \o HeadDigits(Tail(args), all, off)
       ELSE Word(off) \o HeadDigits(Tail(args), all, off + 32 + Ceil32(ByteLen(Head(args).b)))
\* tail part: length word and right-padded payload of every dynamic value
TailDigits(args) ==
  IF args = <<>> THEN ""
  ELSE (IF Head(args).t = "uint" THEN ""
        ELSE Word(ByteLen(Head(args).b)) \o Digits(Head(args).b)
             \o Zeros(2 * (Ceil32(ByteLen(Head(args).b)) - ByteLen(Head(args).b))))
       \o TailDigits(Tail(args))

HexStr(b) == "0x" \o Digits(b)

\* String(arg) as Array.prototype.join applies it to a decoded argument
ArgStr(a) == IF a.t = "uint" THEN ToString(a.v) ELSE HexStr(a.b)

\* data.slice(0, 10) of a hex string: "0x" and the first four bytes
Slice10(b) == IF b.h = "raw" THEN "0x" \o Zeros(2 * (IF b.n < 4 THEN b.n ELSE 4))
              ELSE "0x" \o SelHex(b.sel)

\* -------------------------------------------------------- JS conversions
\* truthiness of a JS value
Truthy(v) ==
  IF IsUndefined(v) \/ IsNull(v) THEN FALSE
  ELSE IF IsNumber(v) THEN v.n # 0
  ELSE IF IsString(v) THEN (IF v.h = "text" THEN v.s # "" ELSE TRUE)
  ELSE TRUE

\* the JS value of a decoded argument
ArgJs(a) == IF a.t = "uint" THEN Num(a.v) ELSE a.b

\* ----------------------------------------------------------------- decode
\* Operators named ...Of, ...With and the like take the value of a local
\* constant of the source as a parameter; the operator named after the source
\* function binds it.

RECURSIVE decodeAbiParameters(_, _, _)
\* viem decodeAbiParameters over the argument words: a static input reads its
\* head word in place (the offset word when the data holds a dynamic value
\* there), a dynamic input follows its head word to the tail, and a head word
\* that is no offset is an error; data that ends before the inputs do is an
\* error
decodeAbiParameters(inputs, args, off) ==
  LET decodeCons(one, rest) ==
        IF one.ok /\ rest.ok THEN [ok |-> TRUE, args |-> <<one.v>> \o rest.args]
        ELSE [ok |-> FALSE, args |-> <<>>]
  IN IF inputs = <<>> THEN [ok |-> TRUE, args |-> <<>>]
     ELSE IF args = <<>> THEN [ok |-> FALSE, args |-> <<>>]
     ELSE decodeCons(IF Head(inputs) \in {"uint48", "uint256"}
                     THEN [ok |-> TRUE,
                           v |-> IF Head(args).t = "uint" THEN Head(args) ELSE UintArg(off)]
                     ELSE [ok |-> Head(args).t = "bytes", v |-> Head(args)],
                     decodeAbiParameters(Tail(inputs), Tail(args),
                                         IF Head(args).t = "uint" THEN off
                                         ELSE off + 32 + Ceil32(ByteLen(Head(args).b))))

\* findBySelector that takes the last entry with the selector
findBySelector_last(abi, type, sel) ==
  LET hits == {i \in 1..Len(abi) : abi[i].type = type /\ abi[i].sel = sel}
  IN IF hits = {} THEN 0 ELSE CHOOSE i \in hits : \A j \in hits : i >= j

\* index of the first entry of kind type with selector sel, 0 when there is none
findBySelector(abi, type, sel) ==
  LET hits == {i \in 1..Len(abi) : abi[i].type = type /\ abi[i].sel = sel}
  IN IF hits = {} THEN 0 ELSE CHOOSE i \in hits : \A j \in hits : i <= j

decodeFailure == [ok |-> FALSE, value |-> Null]

\* viem decodeErrorResult: throws (ok = FALSE) on anything but the encoding of
\* a known error; args is <<>> where viem leaves args undefined
decodeErrorResult(abi, data) ==
  LET decodedWith(item, i, dec) ==
        IF dec.ok
        THEN [ok |-> TRUE,
              value |-> [errorName |-> item.name, args |-> dec.args, abiItem |-> i]]
        ELSE decodeFailure
      decodeItem(i) ==
        IF i = 0 THEN decodeFailure
        ELSE decodedWith(abi[i], i,
                         IF abi[i].inputs = <<>> THEN [ok |-> TRUE, args |-> <<>>]
                         ELSE decodeAbiParameters(abi[i].inputs, data.args,
                                                  32 * Len(abi[i].inputs)))
  IN IF ~IsHexString(data) THEN decodeFailure
     ELSE IF data.h = "raw" THEN decodeFailure
     ELSE decodeItem(findBySelector(abi, "error", data.sel))

\* try / catch around the decoder: the decoded error, or null when it throws
caught(r) == IF r.ok THEN r.value ELSE Null

decodeError(data) == caught(decodeErrorResult(allABIs, data))

\* what viem decodeFunctionData throws, by the name of the error
functionFailure(name) == [ok |-> FALSE, value |-> Null, error |-> name]

\* viem decodeFunctionData: throws (ok = FALSE) on anything but the encoding
\* of a call of a known function; a value that is no string cannot be sliced
decodeFunctionData(abi, data) ==
  LET functionWith(item, dec) ==
        IF dec.ok
        THEN [ok |-> TRUE, value |-> [functionName |-> item.name, args |-> dec.args],
              error |-> ""]
        ELSE functionFailure("AbiDecodingDataSizeTooSmallError")
      functionItem(i) ==
        IF i = 0 THEN functionFailure("AbiFunctionSignatureNotFoundError")
        ELSE functionWith(abi[i],
                          IF abi[i].inputs = <<>> THEN [ok |-> TRUE, args |-> <<>>]
                          ELSE decodeAbiParameters(abi[i].inputs, data.args,
                                                   32 * Len(abi[i].inputs)))
  IN IF ~IsString(data) THEN functionFailure("TypeError")
     ELSE IF data.h # "enc" THEN functionFailure("AbiFunctionSignatureNotFoundError")
     ELSE functionItem(findBySelector(abi, "function", data.sel))

\* callDataCaught without the selector in the failure record
callDataCaught_noSelector(data, r) ==
  IF r.ok THEN [threw |-> FALSE, value |-> r.value]
  ELSE IF ~IsString(data) THEN [threw |-> TRUE, value |-> TypeError]
  ELSE [threw |-> FALSE,
        value |-> [functionName |-> "unknown", args |-> <<>>, selector |-> "",
                   rawData |-> data, error |-> r.error]]

\* try / catch of decodeCallData, r being what decodeFunctionData did: the
\* catch block slices data, which throws when data is no string;
\* data.slice(0, 10) of a text of the inputs is the text (at most 10 characters)
callDataCaught(data, r) ==
  IF r.ok THEN [threw |-> FALSE, value |-> r.value]
  ELSE IF ~IsString(data) THEN [threw |-> TRUE, value |-> TypeError]
  ELSE [threw |-> FALSE,
        value |-> [functionName |-> "unknown", args |-> <<>>,
                   selector |-> IF data.h = "text" THEN data.s ELSE Slice10(data),
                   rawData |-> data, error |-> r.error]]

decodeCallData(data) == callDataCaught(data, decodeFunctionData(allABIs, data))

\* ------------------------------------------------------------ cause chain
\* A viem failure is its cause chain: chain[1] is the failure itself and
\* chain[i + 1] is the cause of chain[i].  Every node has the fields
\*   kind          "Base" | "Http" | "Rpc" | "Contract" | "Exec"
\*   shortMessage, message   strings ("" when absent)
\*   data          a JS value
\*   code          the RPC code of an Rpc node
\*   status        the HTTP status of an Http node
\*   reason        the revert reason of a Contract node ("" when absent)
Node(kind, shortMessage, message, data, code, status, reason) ==
  [kind |-> kind, shortMessage |-> shortMessage, message |-> message, data |-> data,
   code |-> code, status |-> status, reason |-> reason]

\* BaseError.walk(fn) started at chain[from], with fn given as the function
\* from the index of a node to the value of the predicate there: the index of
\* the first node for which fn holds, 0 (null) when the chain ends without one
walk(chain, from, fn) ==
  LET hits == {i \in from..Len(chain) : fn[i]}
  IN IF hits = {} THEN 0 ELSE CHOOSE i \in hits : \A j \in hits : i <= j

isRpcRequestError(e) == e.kind = "Rpc"
isContractFunctionRevertedError(e) == e.kind = "Contract"
isExecutionRevertedError(e) == e.kind = "Exec"
isHttpRequestError(e) == e.kind = "Http"
\* e.data && typeof e.data === 'string' && e.data.startsWith('0x')
hasHexData(e) == Truthy(e.data) /\ IsHexString(e.data)
\* e => e.data
hasData(e) == Truthy(e.data)

\* ------------------------------------------------------------ the result
UnifiedError(type, message, code, details, originalError) ==
  [type |-> type, message |-> message, code |-> code, details |-> details,
   originalError |-> originalError]

\* what one call did: threw is TRUE when an exception left the call, value is
\* the returned record, branch the branch of handleError that ran, calls the
\* arguments of the decodeError calls in call order
Outcome(threw, value, branch, calls) ==
  [threw |-> threw, value |-> value, branch |-> branch, calls |-> calls]

\* ----------------------------------------------------------- network branch
\* httpResult without the status as code
httpResult_noStatus(error, httpError) ==
  UnifiedError("network", "Network request failed", Undefined,
               [rpcError |-> [code |-> Num(0), message |-> httpError.message]],
               error)

\* httpResult with the node that matched as originalError
httpResult_matchedNode(error, httpError) ==
  UnifiedError("network", "Network request failed", httpError.status,
               [rpcError |-> [code |-> IF Truthy(httpError.status) THEN httpError.status ELSE Num(0),
                              message |-> httpError.message]],
               httpError)

httpResult(error, httpError) ==
  UnifiedError("network", "Network request failed", httpError.status,
               [rpcError |-> [code |-> IF Truthy(httpError.status) THEN httpError.status ELSE Num(0),
                              message |-> httpError.message]],
               error)

\* --------------------------------------------------------------- RPC branch
RECURSIVE scanNested(_)

\* scanTried without the break: the last argument that decodes is kept
scanTried_last(arg, nestedDecoded, rest) ==
  IF ~IsNull(nestedDecoded) /\ ~rest.found
  THEN [found |-> TRUE, decoded |-> nestedDecoded, data |-> arg, calls |-> <<arg>> \o rest.calls]
  ELSE [rest EXCEPT !.calls = <<arg>> \o @]

\* one argument that was tried: a decoded one ends the loop
scanTried(arg, nestedDecoded, rest) ==
  IF ~IsNull(nestedDecoded)
  THEN [found |-> TRUE, decoded |-> nestedDecoded, data |-> arg, calls |-> <<arg>>]
  ELSE [rest EXCEPT !.calls = <<arg>> \o @]

\* the loop over decoded.args: the first hex string of at least 10 characters
\* that decodes ends the loop
scanNested(args) ==
  IF args = <<>> THEN [found |-> FALSE, decoded |-> Null, data |-> Undefined, calls |-> <<>>]
  ELSE IF IsHexString(ArgJs(Head(args))) /\ StrLen(ArgJs(Head(args))) >= 10
  THEN scanTried(ArgJs(Head(args)), decodeError(ArgJs(Head(args))), scanNested(Tail(args)))
  ELSE scanNested(Tail(args))

\* the wrapped error check on data longer than 138 characters: the scan of
\* the arguments of the decoded error, and what it leaves in decodedRevert
\* and revertData
rpcWrapped(data, decoded) ==
  LET rpcScanned(r) ==
        IF r.found
        THEN [decodedRevert |-> r.decoded, revertData |-> r.data, calls |-> <<data>> \o r.calls]
        ELSE [decodedRevert |-> Null, revertData |-> data, calls |-> <<data>> \o r.calls]
  IN IF ~IsNull(decoded) /\ Len(decoded.args) > 0
     THEN rpcScanned(scanNested(decoded.args))
     ELSE [decodedRevert |-> Null, revertData |-> data, calls |-> <<data>>]

\* rpcRevertDataOf with the scan from 138 characters on
rpcRevertDataOf_from138(data) ==
  IF ~Truthy(data) THEN [decodedRevert |-> Null, revertData |-> Null, calls |-> <<>>]
  ELSE IF IsHexString(data)
       THEN IF StrLen(data) >= 138 THEN rpcWrapped(data, decodeError(data))
            ELSE [decodedRevert |-> Null, revertData |-> data, calls |-> <<>>]
       ELSE IF IsObject(data) /\ data.hasData
            THEN [decodedRevert |-> Null, revertData |-> data.data, calls |-> <<>>]
            ELSE [decodedRevert |-> Null, revertData |-> Null, calls |-> <<>>]

rpcRevertDataOf(data) ==
  IF ~Truthy(data) THEN [decodedRevert |-> Null, revertData |-> Null, calls |-> <<>>]
  ELSE IF IsHexString(data)
       THEN IF StrLen(data) > 138 THEN rpcWrapped(data, decodeError(data))
            ELSE [decodedRevert |-> Null, revertData |-> data, calls |-> <<>>]
       ELSE IF IsObject(data) /\ data.hasData
            THEN [decodedRevert |-> Null, revertData |-> data.data, calls |-> <<>>]
            ELSE [decodedRevert |-> Null, revertData |-> Null, calls |-> <<>>]

\* rpcInner that unwraps once more when the inner error is the wrapper again
rpcInner_again(found, decoded, innerErrorData, innerDecoded) ==
  IF ~IsNull(innerDecoded) /\ innerDecoded.errorName = WrapperName
     /\ ~IsNull(decodeError(ArgJs(innerDecoded.args[1])))
  THEN [decodedRevert |-> decodeError(ArgJs(innerDecoded.args[1])),
        revertData |-> found.revertData,
        calls |-> found.calls \o <<found.revertData, innerErrorData,
                                   ArgJs(innerDecoded.args[1])>>]
  ELSE [decodedRevert |-> IF ~IsNull(innerDecoded) THEN innerDecoded ELSE decoded,
        revertData |-> found.revertData,
        calls |-> found.calls \o <<found.revertData, innerErrorData>>]

\* the inner decode decides between the inner error and the wrapper
rpcInner(found, decoded, innerErrorData, innerDecoded) ==
  [decodedRevert |-> IF ~IsNull(innerDecoded) THEN innerDecoded ELSE decoded,
   revertData |-> found.revertData,
   calls |-> found.calls \o <<found.revertData, innerErrorData>>]

\* decoded is what decodeError made of the revert data: FailedCallWithMessage
\* with an argument is unwrapped when the argument is a hex string
rpcDecoded(found, decoded) ==
  IF ~IsNull(decoded)
  THEN IF decoded.errorName = WrapperName /\ Len(decoded.args) > 0
       THEN IF IsHexString(ArgJs(decoded.args[1]))
            THEN rpcInner(found, decoded, ArgJs(decoded.args[1]),
                          decodeError(ArgJs(decoded.args[1])))
            ELSE [decodedRevert |-> decoded, revertData |-> found.revertData,
                  calls |-> found.calls \o <<found.revertData>>]
       ELSE [decodedRevert |-> decoded, revertData |-> found.revertData,
             calls |-> found.calls \o <<found.revertData>>]
  ELSE [found EXCEPT !.calls = @ \o <<found.revertData>>]

\* rpcDecode without the direct decode of the revert data
rpcDecode_scanOnly(found) == found

\* the decode of the revert data and the unwrap of FailedCallWithMessage;
\* revertData.length > 2 is false of a value without a length
rpcDecode(found) ==
  IF /\ Truthy(found.revertData)
     /\ IsString(found.revertData)
     /\ IF found.revertData.h = "text" THEN Len(found.revertData.s) > 2
        ELSE StrLen(found.revertData) > 2
  THEN rpcDecoded(found, decodeError(found.revertData))
  ELSE found

RECURSIVE join(_, _)
join(args, sep) ==
  IF args = <<>> THEN ""
  ELSE IF Len(args) = 1 THEN ArgStr(args[1])
  ELSE ArgStr(args[1]) \o sep \o join(Tail(args), sep)

\* revertMessage with the arguments always in parentheses right after the name
revertMessage_alwaysParens(decodedRevert) ==
  "Transaction reverted: " \o decodedRevert.errorName
    \o "(" \o join(decodedRevert.args, ", ") \o ")"

\* the message of a decoded revert
revertMessage(decodedRevert) ==
  LET errorMessage == IF decodedRevert.errorName # "" THEN decodedRevert.errorName
                      ELSE "Unknown contract error"
      errorArgs == decodedRevert.args
      detailedMessage == "Transaction reverted: " \o errorMessage
  IN IF Len(errorArgs) > 0 THEN detailedMessage \o " (" \o join(errorArgs, ", ") \o ")"
     ELSE detailedMessage

rpcRaw(rpcError) ==
  [code |-> rpcError.code, message |-> rpcError.message, data |-> rpcError.data]

\* rpcResultOf with the RPC code as the code of a decoded revert too
rpcResultOf_codeOnContract(error, rpcError, d) ==
  IF ~IsNull(d.decodedRevert)
  THEN Outcome(FALSE,
               UnifiedError("contract", revertMessage(d.decodedRevert), rpcError.code,
                            [selector |-> Slice10(d.revertData), data |-> d.revertData,
                             decodedError |-> d.decodedRevert, rpcError |-> rpcRaw(rpcError)],
                            error),
               "rpc", d.calls)
  ELSE Outcome(FALSE,
               UnifiedError("rpc",
                            IF rpcError.shortMessage # "" THEN rpcError.shortMessage
                            ELSE "RPC request failed",
                            rpcError.code, [rpcError |-> rpcRaw(rpcError)], error),
               "rpc", d.calls)

\* the two return statements of the RPC branch, d being decodedRevert and
\* revertData
rpcResultOf(error, rpcError, d) ==
  IF ~IsNull(d.decodedRevert)
  THEN Outcome(FALSE,
               UnifiedError("contract", revertMessage(d.decodedRevert), Undefined,
                            [selector |-> Slice10(d.revertData), data |-> d.revertData,
                             decodedError |-> d.decodedRevert, rpcError |-> rpcRaw(rpcError)],
                            error),
               "rpc", d.calls)
  ELSE Outcome(FALSE,
               UnifiedError("rpc",
                            IF rpcError.shortMessage # "" THEN rpcError.shortMessage
                            ELSE "RPC request failed",
                            rpcError.code, [rpcError |-> rpcRaw(rpcError)], error),
               "rpc", d.calls)

\* ---------------------------------------------------- contract-revert branch
contractMessage(message, calls) ==
  [threw |-> FALSE, calls |-> calls,
   value |-> [message |-> message, selector |-> Undefined, data |-> Undefined,
              decodedError |-> Undefined, nestedErrors |-> Undefined]]

contractDecodedAs(errorData, decoded, calls) ==
  [threw |-> FALSE, calls |-> calls,
   value |-> [message |-> "Contract reverted: " \o decoded.errorName,
              selector |-> Slice10(errorData), data |-> errorData,
              decodedError |-> decoded, nestedErrors |-> Undefined]]

\* decoded is what decodeError made of errorData; FailedCallWithMessage with
\* a truthy first argument arg0 has the argument decoded as well
contractDecoded(errorData, decoded) ==
  LET contractNested(arg0, nestedDecoded) ==
        IF ~IsNull(nestedDecoded)
        THEN [threw |-> FALSE, calls |-> <<errorData, arg0>>,
              value |-> [message |-> "Contract reverted: " \o nestedDecoded.errorName,
                         selector |-> Slice10(errorData), data |-> errorData,
                         decodedError |-> decoded,
                         nestedErrors |->
                           << [type |-> "contract",
                               message |-> IF nestedDecoded.errorName # ""
                                           THEN nestedDecoded.errorName
                                           ELSE "Unknown nested error",
                               details |-> [decodedError |-> nestedDecoded]] >>]]
        ELSE contractDecodedAs(errorData, decoded, <<errorData, arg0>>)
  IN IF IsNull(decoded)
     THEN contractMessage("Contract reverted with unknown error", <<errorData>>)
     ELSE IF /\ decoded.errorName = WrapperName
             /\ Len(decoded.args) > 0
             /\ Truthy(ArgJs(decoded.args[1]))
     THEN contractNested(ArgJs(decoded.args[1]), decodeError(ArgJs(decoded.args[1])))
     ELSE contractDecodedAs(errorData, decoded, <<errorData>>)

\* decodeContractError; errorData is error.data when that is a string and
\* JSON.stringify(error.data) otherwise: a string that starts with "{", or a
\* TypeError (threw is TRUE) when the object holds a BigInt
decodeContractError(error) ==
  IF error.reason # "" THEN contractMessage("Contract reverted: " \o error.reason, <<>>)
  ELSE IF ~Truthy(error.data)
  THEN contractMessage("Contract reverted with unknown error", <<>>)
  ELSE IF IsString(error.data) THEN contractDecoded(error.data, decodeError(error.data))
  ELSE IF error.data.json THEN contractDecoded(Text("{json}"), decodeError(Text("{json}")))
  ELSE [threw |-> TRUE, calls |-> <<>>, value |-> TypeError]

contractResultOf(error, decoded) ==
  IF decoded.threw THEN Outcome(TRUE, decoded.value, "contract", decoded.calls)
  ELSE Outcome(FALSE,
               UnifiedError("contract", decoded.value.message, Undefined,
                            [selector |-> decoded.value.selector, data |-> decoded.value.data,
                             decodedError |-> decoded.value.decodedError,
                             nestedErrors |-> decoded.value.nestedErrors],
                            error),
               "contract", decoded.calls)

\* --------------------------------------------------- execution-revert branch
executionPlain(error, calls) ==
  [message |-> IF error.message # "" THEN error.message ELSE "Execution reverted",
   details |-> Undefined, calls |-> calls]

\* the body of decodeExecutionError on the data the walk found
executionData(error, revertData) ==
  LET executionDecoded(decoded) ==
        IF ~IsNull(decoded)
        THEN [message |-> "Execution reverted: " \o decoded.errorName,
              details |-> [selector |-> Slice10(revertData), data |-> revertData,
                           decodedError |-> decoded],
              calls |-> <<revertData>>]
        ELSE executionPlain(error, <<revertData>>)
  IN IF Truthy(revertData) THEN executionDecoded(decodeError(revertData))
     ELSE executionPlain(error, <<>>)

\* errorWithData?.data of a walk result
dataOf(chain, errorWithData) ==
  IF errorWithData # 0 THEN chain[errorWithData].data ELSE Undefined

\* decodeExecutionError with the walk for data started at the outer failure
decodeExecutionError_fromOuter(chain, at) ==
  executionData(chain[at],
                dataOf(chain, walk(chain, 1, [i \in DOMAIN chain |-> hasData(chain[i])])))

\* decodeExecutionError(chain[at]): the walk for data starts at that node
decodeExecutionError(chain, at) ==
  executionData(chain[at],
                dataOf(chain, walk(chain, at, [i \in DOMAIN chain |-> hasData(chain[i])])))

executionResultOf(error, decoded) ==
  Outcome(FALSE, UnifiedError("contract", decoded.message, Undefined, decoded.details, error),
          "execution", decoded.calls)

\* ------------------------------------------------------- generic data branch
\* unifiedError with the primary message in place of the short message
unifiedError_primary(error) ==
  UnifiedError("unknown", error.chain[1].message, Undefined, Undefined, error)

\* the record returned when no branch returns
unifiedError(error) ==
  UnifiedError("unknown",
               IF error.chain[1].shortMessage # "" THEN error.chain[1].shortMessage
               ELSE error.chain[1].message,
               Undefined, Undefined, error)

dataDecoded(error, data, decoded) ==
  IF ~IsNull(decoded)
  THEN Outcome(FALSE,
               UnifiedError("contract", "Transaction reverted: " \o decoded.errorName, Undefined,
                            [selector |-> Slice10(data), data |-> data, decodedError |-> decoded],
                            error),
               "data", <<data>>)
  ELSE Outcome(FALSE, unifiedError(error), "data", <<data>>)

\* ---------------------------------------------------------- handleViemError
\* selectBranch with the RPC test ahead of the HTTP test
selectBranch_rpcFirst(httpError, rpcError, contractError, executionError, errorWithData) ==
  IF rpcError # 0 THEN "rpc"
  ELSE IF httpError # 0 THEN "network"
  ELSE IF contractError # 0 THEN "contract"
  ELSE IF executionError # 0 THEN "execution"
  ELSE IF errorWithData # 0 THEN "data"
  ELSE "none"

\* selectBranch with the contract-revert test ahead of the RPC test
selectBranch_contractFirst(httpError, rpcError, contractError, executionError, errorWithData) ==
  IF httpError # 0 THEN "network"
  ELSE IF contractError # 0 THEN "contract"
  ELSE IF rpcError # 0 THEN "rpc"
  ELSE IF executionError # 0 THEN "execution"
  ELSE IF errorWithData # 0 THEN "data"
  ELSE "none"

\* the order of the if statements over the five walk results (0 = not found)
selectBranch(httpError, rpcError, contractError, executionError, errorWithData) ==
  IF httpError # 0 THEN "network"
  ELSE IF rpcError # 0 THEN "rpc"
  ELSE IF contractError # 0 THEN "contract"
  ELSE IF executionError # 0 THEN "execution"
  ELSE IF errorWithData # 0 THEN "data"
  ELSE "none"

\* the body of handleViemError after the five walks; the revert data of the
\* RPC branch comes from the string itself (with the wrapped error scan when
\* it is long enough) or from the data field of an object
viemResult(error, httpError, rpcError, contractError, executionError, errorWithData) ==
  LET branch == selectBranch(httpError, rpcError, contractError, executionError, errorWithData)
  IN CASE branch = "network" ->
            Outcome(FALSE, httpResult(error, error.chain[httpError]), "network", <<>>)
       [] branch = "rpc" ->
            rpcResultOf(error, error.chain[rpcError],
                        rpcDecode(rpcRevertDataOf(error.chain[rpcError].data)))
       [] branch = "contract" ->
            contractResultOf(error, decodeContractError(error.chain[contractError]))
       [] branch = "execution" ->
            executionResultOf(error, decodeExecutionError(error.chain, executionError))
       [] branch = "data" ->
            dataDecoded(error, error.chain[errorWithData].data,
                        decodeError(error.chain[errorWithData].data))
       [] OTHER -> Outcome(FALSE, unifiedError(error), "none", <<>>)

handleViemError(error) ==
  viemResult(error,
             walk(error.chain, 1, [i \in DOMAIN error.chain |-> isHttpRequestError(error.chain[i])]),
             walk(error.chain, 1, [i \in DOMAIN error.chain |-> isRpcRequestError(error.chain[i])]),
             walk(error.chain, 1,
                  [i \in DOMAIN error.chain |-> isContractFunctionRevertedError(error.chain[i])]),
             walk(error.chain, 1,
                  [i \in DOMAIN error.chain |-> isExecutionRevertedError(error.chain[i])]),
             walk(error.chain, 1, [i \in DOMAIN error.chain |-> hasHexData(error.chain[i])]))

\* ------------------------------------------------------ handleStandardError
\* the message of a plain Error is a sequence of characters
RECURSIVE Str(_)
Str(chars) == IF chars = <<>> THEN "" ELSE Head(chars) \o Str(Tail(chars))

\* String.prototype.includes
includes(chars, sub) ==
  \E i \in 1..(Len(chars) - Len(sub) + 1) : SubSeq(chars, i, i + Len(sub) - 1) = sub

Fetch == <<"f", "e", "t", "c", "h">>
Network == <<"n", "e", "t", "w", "o", "r", "k">>
MissingRequiredFields ==
  <<"M", "i", "s", "s", "i", "n", "g", " ", "r", "e", "q", "u", "i", "r", "e", "d", " ",
    "f", "i", "e", "l", "d", "s">>
Invalid == <<"I", "n", "v", "a", "l", "i", "d">>

\* handleStandardError with the validation test before the network test
handleStandardError_validationFirst(error) ==
  IF includes(error.message, MissingRequiredFields) \/ includes(error.message, Invalid)
  THEN UnifiedError("validation", Str(error.message), Undefined, Undefined, error)
  ELSE IF includes(error.message, Fetch) \/ includes(error.message, Network)
  THEN UnifiedError("network", "Network connection failed", Undefined, Undefined, error)
  ELSE UnifiedError("unknown", Str(error.message), Undefined, Undefined, error)

handleStandardError(error) ==
  IF includes(error.message, Fetch) \/ includes(error.message, Network)
  THEN UnifiedError("network", "Network connection failed", Undefined, Undefined, error)
  ELSE IF includes(error.message, MissingRequiredFields) \/ includes(error.message, Invalid)
  THEN UnifiedError("validation", Str(error.message), Undefined, Undefined, error)
  ELSE UnifiedError("unknown", Str(error.message), Undefined, Undefined, error)

\* -------------------------------------------------------------- handleError
\* String(v) of a thrown value that is no Error: the string, or the TypeError
\* thrown for an object that cannot be converted
String(v) ==
  IF IsObject(v) /\ v.o = "bare" THEN [threw |-> TRUE, value |-> TypeError]
  ELSE [threw |-> FALSE,
        value |-> IF IsUndefined(v) THEN "undefined"
                  ELSE IF IsNull(v) THEN "null"
                  ELSE IF IsNumber(v) THEN ToString(v.n)
                  ELSE IF IsString(v) THEN (IF v.h = "text" THEN v.s ELSE HexStr(v))
                  ELSE "[object Object]"]

\* a failure is [kind |-> "viem", chain |-> ..], [kind |-> "error", message |-> ..]
\* or [kind |-> "value", v |-> ..]; the last return makes a record of
\* String(error), or lets through what String threw
handleError(error) ==
  IF error.kind = "viem" THEN handleViemError(error)
  ELSE IF error.kind = "error"
  THEN Outcome(FALSE, handleStandardError(error), "standard", <<>>)
  ELSE IF String(error.v).threw THEN Outcome(TRUE, String(error.v).value, "value", <<>>)
  ELSE Outcome(FALSE,
               UnifiedError("unknown", String(error.v).value, Undefined, Undefined, error),
               "value", <<>>)

\* ------------------------------------------------------------------ inputs
\* revert data that decodes without unwrapping
ExpiredRequest == Enc(2, <<UintArg(42)>>)
FailedCall == Enc(3, <<>>)
MismatchedValue == Enc(4, <<UintArg(1), UintArg(2)>>)
\* revert data that does not decode: empty, shorter than a selector, unknown
\* selector, arguments cut off
EmptyHex == Raw(0)
ShortHex == Raw(2)
\* selector 7 belongs to no entry of allABIs
UnknownHex == Enc(7, <<>>)
TruncatedHex == Enc(2, <<>>)

\* FailedCallWithMessage(bytes) around b
Wrap(b) == Enc(1, <<BytesArg(b)>>)

RECURSIVE WrapN(_, _)
WrapN(b, k) == IF k = 0 THEN b ELSE Wrap(WrapN(b, k - 1))

\* MintCallsFailed(bytes, bytes) with the arguments a and b
Pair(a, b) == Enc(5, <<BytesArg(a), BytesArg(b)>>)

LeafHex == {ExpiredRequest, FailedCall, MismatchedValue, EmptyHex, ShortHex, UnknownHex, TruncatedHex}

\* the shapes of a node's data field: absent, a hex string (a leaf wrapped up
\* to MaxWrap times), another string, an error of two byte strings (each of
\* them decodable, unknown or too short), an object with a data field, an
\* object without one; json = FALSE is an object JSON.stringify rejects (it
\* holds a BigInt)
RichData ==
  LET HexData == {WrapN(b, k) : b \in LeafHex, k \in 0..MaxWrap}
      PairData == {Pair(a, b) : a, b \in {ExpiredRequest, FailedCall, UnknownHex, ShortHex}}
      ObjectData ==
        {Obj(TRUE, d, TRUE) : d \in HexData \cup {Undefined, Text("execution reverted")}}
        \cup {Obj(FALSE, Undefined, TRUE), Obj(FALSE, Undefined, FALSE)}
  IN HexData \cup PairData \cup ObjectData \cup {Undefined, Text(""), Text("execution reverted")}

HttpNodes ==
  {Node("Http", "HTTP request failed.", "HTTP request failed. Status: 503", Undefined,
        Undefined, st, "") : st \in {Num(503), Undefined}}
RpcNodes(D) ==
  {Node("Rpc", sm, "RPC Request failed. Details: execution reverted", d, Num(c), Undefined, "")
     : sm \in {"RPC Request failed.", ""}, d \in D, c \in {0 - 32000}}
ContractNodes(D) ==
  {Node("Contract", "The contract function reverted.", "The contract function reverted.", d,
        Undefined, Undefined, r) : d \in D, r \in {"", "Paused"}}
ExecNodes(D) ==
  {Node("Exec", "Execution reverted.", m, d, Undefined, Undefined, "")
     : d \in D, m \in {"Execution reverted for an unknown reason.", ""}}
BaseNodes(D) ==
  {Node("Base", sm, "An error occurred while sending the transaction.", d, Undefined,
        Undefined, "") : d \in D, sm \in {"Transaction failed.", ""}}

RECURSIVE SeqsUpTo(_, _)
\* the non-empty sequences over S of length at most n
SeqsUpTo(S, n) ==
  IF n <= 1 THEN {<<x>> : x \in S}
  ELSE LET shorter == SeqsUpTo(S, n - 1)
       IN shorter \cup {<<x>> \o q : x \in S, q \in {r \in shorter : Len(r) = n - 1}}

Viem(chain) == [kind |-> "viem", chain |-> chain]

OuterNode ==
  Node("Base", "Transaction failed.", "An error occurred while sending the transaction.",
       Undefined, Undefined, Undefined, "")

MsgMissing ==
  <<"M", "i", "s", "s", "i", "n", "g", " ", "r", "e", "q", "u", "i", "r", "e", "d", " ",
    "f", "i", "e", "l", "d", "s", ":", " ", "t", "o", " ", "a", "n", "d", " ", "d", "a",
    "t", "a">>
MsgFetch ==
  <<"f", "e", "t", "c", "h", " ", "f", "a", "i", "l", "e", "d">>
MsgInvalidNetwork ==
  <<"I", "n", "v", "a", "l", "i", "d", " ", "n", "e", "t", "w", "o", "r", "k", " ", "i",
    "d">>
MsgInvalid ==
  <<"I", "n", "v", "a", "l", "i", "d", " ", "s", "i", "g", "n", "a", "t", "u", "r", "e">>

\* plain Error values, by message
StandardFailures ==
  {[kind |-> "error", message |-> m]
     : m \in {MsgMissing, MsgFetch, MsgInvalidNetwork, MsgInvalid, <<"b", "o", "o", "m">>}}
\* thrown values that are no Error
ValueFailures ==
  {[kind |-> "value", v |-> v]
     : v \in {Null, Undefined, Text("boom"), Text(""), Num(7), Num(0),
               Obj(FALSE, Undefined, TRUE), Bare}}

\* ----------------------------------------------------------- state machine
VARIABLES
  \* call, walker and relay are <<>> in a specification that does not use them
  error,    \* the failure caught by the request handler
  pc,       \* "caught": handleError not yet called; "done": it has finished
  outcome,  \* what the call of handleError did
  registry, \* the module-level list allABIs every decode call reads
  call,     \* per request handler, the call it makes: op, arg, pc, result
  response, \* what the request handler answers after handleError
  walker,   \* the walks of handleViemError along a chain that may close in a cycle
  relay     \* one relay request on its way through an entry point

vars == <<error, pc, outcome, registry, call, response, walker, relay>>

NoOutcome == Outcome(FALSE, Undefined, "", <<>>)
NoResponse == [threw |-> FALSE, status |-> Undefined, body |-> Undefined]

\* chains for the precedence of the branches: every kind at every position,
\* little variety of data
Init ==
  LET PlainData == {Undefined, ExpiredRequest, UnknownHex}
      PlainNodes ==
        HttpNodes
        \cup {n \in RpcNodes(PlainData) : n.shortMessage # ""}
        \cup {n \in ContractNodes(PlainData) : n.reason = "" \/ n.data = Undefined}
        \cup {n \in ExecNodes(PlainData) : n.message # ""}
        \cup {n \in BaseNodes(PlainData) : n.shortMessage # ""}
      ChainFailures == {Viem(c) : c \in SeqsUpTo(PlainNodes, MaxChain)}
  IN /\ error \in ChainFailures \cup StandardFailures \cup ValueFailures
     /\ pc = "caught"
     /\ outcome = NoOutcome
     /\ registry = allABIs
     /\ call = <<>>
     /\ response = NoResponse
     /\ walker = <<>>
     /\ relay = <<>>

\* chains for the decoding: every shape of data on every kind of node, alone
\* or below the outer error of a failed send; in a longer chain one node
\* varies over every shape and the others over absent and decodable data
InitData ==
  LET RichNodes ==
        HttpNodes \cup RpcNodes(RichData) \cup ContractNodes(RichData)
        \cup ExecNodes(RichData) \cup BaseNodes(RichData)
      FewData == {Undefined, ExpiredRequest}
      FewNodes ==
        HttpNodes \cup RpcNodes(FewData) \cup ContractNodes(FewData)
        \cup ExecNodes(FewData) \cup BaseNodes(FewData)
      Others ==
        {<<>>} \cup (IF MaxDataChain > 1 THEN SeqsUpTo(FewNodes, MaxDataChain - 1) ELSE {})
      DataChains ==
        UNION {UNION {{SubSeq(q, 1, k) \o <<r>> \o SubSeq(q, k + 1, Len(q)) : r \in RichNodes}
                        : k \in 0..Len(q)}
                 : q \in Others}
      DataFailures ==
        {Viem(p \o c) : p \in {<<>>, <<OuterNode>>}, c \in DataChains}
  IN /\ error \in DataFailures \cup StandardFailures \cup ValueFailures
     /\ pc = "caught"
     /\ outcome = NoOutcome
     /\ registry = allABIs
     /\ call = <<>>
     /\ response = NoResponse
     /\ walker = <<>>
     /\ relay = <<>>

\* handleError(error) with error instanceof BaseError
HandleViem ==
  /\ pc = "caught"
  /\ error.kind = "viem"
  /\ outcome' = handleError(error)
  /\ pc' = "done"
  /\ UNCHANGED <<error, registry, call, response, walker, relay>>

\* handleError(error) with error instanceof Error
HandleStandard ==
  /\ pc = "caught"
  /\ error.kind = "error"
  /\ outcome' = handleError(error)
  /\ pc' = "done"
  /\ UNCHANGED <<error, registry, call, response, walker, relay>>

\* handleError(error) with any other value
HandleValue ==
  /\ pc = "caught"
  /\ error.kind = "value"
  /\ outcome' = handleError(error)
  /\ pc' = "done"
  /\ UNCHANGED <<error, registry, call, response, walker, relay>>

Next == HandleViem \/ HandleStandard \/ HandleValue

\* failures whose chains vary in the kinds and the order of the nodes
Spec == Init /\ [][Next]_vars
\* failures whose nodes vary in the shape of their data
SpecData == InitData /\ [][Next]_vars

\* ------------------------------------------ calls of several request handlers
\* Request handlers run on one event loop: a call of decodeError,
\* decodeCallData or handleError is synchronous and runs to its end before
\* another handler continues, so one call is one step; the handlers' calls
\* happen in any order.
Handlers == 1..NumHandlers

\* call data: a call of execute, one with the arguments cut off
ExecuteCall == Enc(9, <<BytesArg(ExpiredRequest)>>)
TruncatedCall == Enc(9, <<>>)

\* every handler has one call to make.  Arguments of the decode calls: revert
\* data, call data, data that is no encoding at all, and values that are no
\* string (a request body without data); arguments of handleError: a failure
\* of each of the three kinds
InitCalls ==
  LET DecodeArgs ==
        {ExpiredRequest, FailedCall, Wrap(ExpiredRequest), UnknownHex, TruncatedHex, EmptyHex,
         ShortHex, ExecuteCall, TruncatedCall, Text("hello"), Undefined}
      HandleArgs ==
        {Viem(<<n>>) : n \in {m \in RpcNodes({ExpiredRequest, Undefined}) : m.shortMessage # ""}}
        \cup {[kind |-> "error", message |-> MsgFetch], [kind |-> "value", v |-> Null]}
      Pending(op, arg) == [op |-> op, arg |-> arg, pc |-> "pending", result |-> Undefined]
      CallsOf ==
        {Pending("decodeError", d) : d \in DecodeArgs}
        \cup {Pending("decodeCallData", d) : d \in DecodeArgs}
        \cup {Pending("handleError", e) : e \in HandleArgs}
  IN /\ error = [kind |-> "value", v |-> Undefined]
     /\ pc = "calls"
     /\ outcome = NoOutcome
     /\ registry = allABIs
     /\ call \in [Handlers -> CallsOf]
     /\ response = NoResponse
     /\ walker = <<>>
     /\ relay = <<>>

\* what the caller of handleError sees of an outcome
returnOf(out) == [threw |-> out.threw, value |-> out.value]

\* Finish for a call that takes the entry it matched out of the shared list
Finish_consumesList(h, result) ==
  /\ call' = [call EXCEPT ![h].pc = "done", ![h].result = result]
  /\ registry' = Tail(registry)
  /\ UNCHANGED <<error, pc, outcome, response, walker, relay>>

\* the end of a call: the handler has its result, nothing else is written
Finish(h, result) ==
  /\ call' = [call EXCEPT ![h].pc = "done", ![h].result = result]
  /\ UNCHANGED <<error, pc, outcome, registry, response, walker, relay>>

\* handler h calls decodeError(arg), which decodes over the list as it is then
DecodeError(h) ==
  /\ call[h].pc = "pending"
  /\ call[h].op = "decodeError"
  /\ Finish(h, [threw |-> FALSE, value |-> caught(decodeErrorResult(registry, call[h].arg))])

\* handler h calls decodeCallData(arg), which decodes over the list as it is then
DecodeCallData(h) ==
  /\ call[h].pc = "pending"
  /\ call[h].op = "decodeCallData"
  /\ Finish(h, callDataCaught(call[h].arg, decodeFunctionData(registry, call[h].arg)))

\* handler h calls handleError(arg)
HandleError(h) ==
  /\ call[h].pc = "pending"
  /\ call[h].op = "handleError"
  /\ Finish(h, returnOf(handleError(call[h].arg)))

NextCalls == \E h \in Handlers : DecodeError(h) \/ DecodeCallData(h) \/ HandleError(h)

\* the calls of NumHandlers request handlers in every order
SpecCalls == InitCalls /\ [][NextCalls]_vars

\* ------------------------------------------------------- the error response

\* the decoded error of nestedErrors[0], which the contract branch sets when
\* decodedError is the wrapper and its argument decodes; null when it is not set
nestedOf(decoded) ==
  IF "errorName" \in DOMAIN decoded /\ decoded.errorName = WrapperName
  THEN decodeError(ArgJs(decoded.args[1]))
  ELSE Null

\* JSON.stringify(details) throws: a BigInt is among the values it walks, as
\* an argument of a decoded error, or in an object the RPC error carries
detailsThrow(details) ==
  LET bigArgs(decoded) ==
        /\ "errorName" \in DOMAIN decoded
        /\ \E k \in 1..Len(decoded.args) : allABIs[decoded.abiItem].inputs[k] = "uint256"
  IN \/ "decodedError" \in DOMAIN details /\ bigArgs(details.decodedError)
     \/ "nestedErrors" \in DOMAIN details /\ bigArgs(nestedOf(details.decodedError))
     \/ /\ "rpcError" \in DOMAIN details
        /\ "data" \in DOMAIN details.rpcError
        /\ IsObject(details.rpcError.data) /\ ~details.rpcError.data.json

Response(status, unified) ==
  [threw |-> FALSE, status |-> status,
   body |-> [error |-> unified.message, errorType |-> unified.type,
             errorDetails |-> unified.details]]

Thrown == [threw |-> TRUE, status |-> Undefined, body |-> Undefined]

\* the catch block of the worker of src/index.ts: JSON.stringify(originalError)
\* throws when the failure itself exposes an object with a BigInt (cause is
\* not enumerable and is not walked), JSON.stringify of the body when the
\* details hold one
workerResponse(unified) ==
  IF \/ /\ unified.originalError.kind = "viem"
        /\ IsObject(unified.originalError.chain[1].data)
        /\ ~unified.originalError.chain[1].data.json
     \/ detailsThrow(unified.details)
  THEN Thrown
  ELSE Response(IF unified.type = "validation" THEN 400
                ELSE IF unified.type = "network" THEN 503
                ELSE IF unified.type = "rpc" /\ Truthy(unified.code)
                THEN (IF unified.code = Num(0 - 32602) \/ unified.code = Num(0 - 32600)
                      THEN 400 ELSE 500)
                ELSE 500,
                unified)

\* the status of the worker of src/cloudflare/index.ts, from errorType alone
serviceStatus(result) ==
  IF result.errorType = "validation" THEN 400
  ELSE IF result.errorType = "network" THEN 503
  ELSE 500

\* the catch block of RelayerService.relay and the response the worker of
\* src/cloudflare/index.ts makes of its result
serviceResponse(unified) ==
  IF detailsThrow(unified.details) THEN Thrown
  ELSE Response(serviceStatus([errorType |-> unified.type]), unified)

\* failures for the responses: every RPC code the status depends on, and
\* decoded errors with and without a BigInt argument
InitRespond ==
  LET RespondNodes ==
        HttpNodes
        \cup {Node("Rpc", "RPC Request failed.", "RPC Request failed. Details: invalid", d,
                    Num(c), Undefined, "")
                : d \in {Undefined, ExpiredRequest, MismatchedValue, Wrap(MismatchedValue)},
                  c \in {0 - 32602, 0 - 32600, 0 - 32000, 0}}
        \cup ContractNodes({Undefined, FailedCall, MismatchedValue, Wrap(MismatchedValue),
                            Obj(FALSE, Undefined, TRUE)})
        \cup ExecNodes({Undefined, ExpiredRequest, MismatchedValue})
        \cup BaseNodes({Undefined, MismatchedValue})
      RespondFailures ==
        {Viem(p \o <<n>>) : p \in {<<>>, <<OuterNode>>}, n \in RespondNodes}
  IN /\ error \in RespondFailures \cup StandardFailures \cup ValueFailures
     /\ pc = "caught"
     /\ outcome = NoOutcome
     /\ registry = allABIs
     /\ call = <<>>
     /\ response = NoResponse
     /\ walker = <<>>
     /\ relay = <<>>

\* the worker of src/index.ts answers; an exception of handleError leaves it
RespondWorker ==
  /\ pc = "done"
  /\ response' = IF outcome.threw THEN Thrown ELSE workerResponse(outcome.value)
  /\ pc' = "responded"
  /\ UNCHANGED <<error, outcome, registry, call, walker, relay>>

\* the worker of src/cloudflare/index.ts answers what RelayerService.relay returned
RespondService ==
  /\ pc = "done"
  /\ response' = IF outcome.threw THEN Thrown ELSE serviceResponse(outcome.value)
  /\ pc' = "responded"
  /\ UNCHANGED <<error, outcome, registry, call, walker, relay>>

NextRespond == HandleViem \/ HandleStandard \/ HandleValue \/ RespondWorker \/ RespondService

\* a failure is classified and answered by one of the two workers
SpecRespond == InitRespond /\ [][NextRespond]_vars

\* ------------------------------------------- the walks, one call at a time
\* viem's walk(err, fn) is a recursion without a visited set or a depth cap:
\*   if (fn(err)) return err; if (err.cause !== undefined) return walk(err.cause, fn);
\*   return null
\* A failure here is its chain and back: the cause of the last node is
\* chain[back], or undefined when back = 0.

\* err.cause of the node at index at (0: undefined)
causeOf(e, at) == IF at < Len(e.chain) THEN at + 1 ELSE e.back

\* the predicates of the five walks of handleViemError, in the order of the source
walkPredicates(e) ==
  <<isRpcRequestError(e), isContractFunctionRevertedError(e), isExecutionRevertedError(e),
    isHttpRequestError(e), hasHexData(e)>>

\* the first walk starts at the failure itself
Walking(k, found) == [k |-> k, at |-> 1, hops |-> 0, found |-> found]

\* one node of every kind, and plain nodes with and without revert data; the
\* cause of the last node is absent (back = 0) or a node of the chain
InitWalk ==
  LET WalkNodes ==
        {Node("Http", "HTTP request failed.", "HTTP request failed. Status: 503", Undefined,
              Undefined, Num(503), ""),
         Node("Rpc", "RPC Request failed.", "RPC Request failed. Details: execution reverted",
              Undefined, Num(0 - 32000), Undefined, ""),
         Node("Contract", "The contract function reverted.", "The contract function reverted.",
              Undefined, Undefined, Undefined, "Paused"),
         Node("Exec", "Execution reverted.", "Execution reverted for an unknown reason.",
              Undefined, Undefined, Undefined, ""),
         Node("Base", "Transaction failed.", "An error occurred while sending the transaction.",
              ExpiredRequest, Undefined, Undefined, ""),
         OuterNode}
      WalkFailures ==
        {[kind |-> "viem", chain |-> c, back |-> b]
           : c \in SeqsUpTo(WalkNodes, MaxLoop), b \in 0..MaxLoop}
  IN /\ error \in {e \in WalkFailures : e.back <= Len(e.chain)}
     /\ pc = "walking"
     /\ outcome = NoOutcome
     /\ registry = allABIs
     /\ call = <<>>
     /\ response = NoResponse
     /\ walker = Walking(1, <<>>)
     /\ relay = <<>>

\* walk number k returns r (0: null): the next walk starts, or the body of
\* handleViemError goes on after the fifth
WalkReturn(r) ==
  /\ walker' = IF walker.k < 5 THEN Walking(walker.k + 1, Append(walker.found, r))
               ELSE [walker EXCEPT !.found = Append(@, r)]
  /\ pc' = IF walker.k < 5 THEN "walking" ELSE "walked"
  /\ UNCHANGED <<error, outcome, registry, call, response, relay>>

\* fn(err) holds: err is returned
WalkMatch ==
  /\ pc = "walking"
  /\ walkPredicates(error.chain[walker.at])[walker.k]
  /\ WalkReturn(walker.at)

\* fn(err) fails and err has no cause: null is returned
WalkEnd ==
  /\ pc = "walking"
  /\ ~walkPredicates(error.chain[walker.at])[walker.k]
  /\ causeOf(error, walker.at) = 0
  /\ WalkReturn(0)

\* fn(err) fails and err has a cause: walk calls itself on the cause
WalkFollow ==
  /\ pc = "walking"
  /\ ~walkPredicates(error.chain[walker.at])[walker.k]
  /\ causeOf(error, walker.at) # 0
  /\ walker.hops < MaxStack
  /\ walker' = [walker EXCEPT !.at = causeOf(error, walker.at), !.hops = @ + 1]
  /\ UNCHANGED <<error, pc, outcome, registry, call, response, relay>>

\* the nested call does not fit the stack: RangeError leaves walk, and
\* handleViemError and handleError with it
\* the exception of a recursion that exhausts the call stack
WalkOverflow ==
  /\ pc = "walking"
  /\ ~walkPredicates(error.chain[walker.at])[walker.k]
  /\ causeOf(error, walker.at) # 0
  /\ walker.hops = MaxStack
  /\ outcome' = Outcome(TRUE, [exception |-> "RangeError"], "walk", <<>>)
  /\ pc' = "done"
  /\ UNCHANGED <<error, registry, call, response, walker, relay>>

\* the rest of handleViemError on the five walk results
WalkClassify ==
  /\ pc = "walked"
  /\ outcome' = viemResult(error, walker.found[4], walker.found[1], walker.found[2],
                           walker.found[3], walker.found[5])
  /\ pc' = "done"
  /\ UNCHANGED <<error, registry, call, response, walker, relay>>

NextWalk == WalkMatch \/ WalkEnd \/ WalkFollow \/ WalkOverflow \/ WalkClassify

\* handleError on a viem failure, its walks taken one call of walk at a time
SpecWalk == InitWalk /\ [][NextWalk]_vars

\* ------------------------------------------------------- the relay request
\* One relay request served by both entry points: the worker of src/index.ts,
\* which builds and sends the transaction itself, and the worker of
\* src/cloudflare/index.ts, which hands the request to RelayerService.relay.
\* Both see the same request and the same outcome of sendTransaction.

\* a string of characters that are kept one by one, as toLowerCase needs them
Addr(chars) == [h |-> "addr", chars |-> chars]
IsAddress(v) == IsString(v) /\ v.h = "addr"

\* contractAddress of the BattleFactory entry of deployments.json
battleFactoryAddress == <<"0", "x", "A", "b", "1", "2">>
\* env.ERC2771_FORWARDER_ADDRESS / config.forwarderAddress
forwarderAddress == <<"0", "x", "c", "d", "3", "4">>

\* String.prototype.toLowerCase, character by character
toLowerCase(chars) ==
  [i \in 1..Len(chars) |->
     CASE chars[i] = "A" -> "a" [] chars[i] = "B" -> "b" [] chars[i] = "C" -> "c"
       [] chars[i] = "D" -> "d" [] chars[i] = "E" -> "e" [] chars[i] = "F" -> "f"
       [] chars[i] = "X" -> "x" [] OTHER -> chars[i]]

\* Number(v) of a number or of undefined: Number(undefined) is NaN, which no
\* integer conversion accepts
Number(v) == IF IsNumber(v) THEN v ELSE [nan |-> TRUE]

\* what to.toLowerCase throws when to is no string
MsgNotAFunction ==
  <<"t", "o", ".", "t", "o", "L", "o", "w", "e", "r", "C", "a", "s", "e", " ", "i", "s",
    " ", "n", "o", "t", " ", "a", " ", "f", "u", "n", "c", "t", "i", "o", "n">>

Tried(threw, value) == [threw |-> threw, value |-> value]

\* encodeFunctionData({abi: ERC2771ForwarderABI, functionName: 'execute', args: [{...}]}):
\* the call of execute over the forward request, or the error of the first
\* field that cannot be encoded: viem's InvalidAddressError (a BaseError) for
\* an address, the TypeError of BigInt(undefined) for a uint
encodeFunctionData(from, to, gas, deadline, data, signature) ==
  LET InvalidAddressError ==
        Viem(<<Node("Base", "Address is invalid.", "Address is invalid.", Undefined,
                    Undefined, Undefined, "")>>)
      MsgBigInt ==
        <<"C", "a", "n", "n", "o", "t", " ", "c", "o", "n", "v", "e", "r", "t", " ", "u",
          "n", "d", "e", "f", "i", "n", "e", "d", " ", "t", "o", " ", "a", " ", "B", "i",
          "g", "I", "n", "t">>
  IN IF ~IsAddress(from) \/ ~IsAddress(to) THEN Tried(TRUE, InvalidAddressError)
     ELSE IF ~IsNumber(gas) \/ ~IsNumber(deadline)
     THEN Tried(TRUE, [kind |-> "error", message |-> MsgBigInt])
     ELSE Tried(FALSE, [h |-> "call", functionName |-> "execute",
                        args |-> [from |-> from, to |-> to, value |-> Num(0), gas |-> gas,
                                  deadline |-> deadline, data |-> data,
                                  signature |-> signature]])

Transaction(recipient, calldata) == [to |-> recipient, data |-> calldata]

routed(recipient, encoded) ==
  IF encoded.threw THEN encoded ELSE Tried(FALSE, Transaction(recipient, encoded.value))

\* route with the addresses compared as they are written
route_caseSensitive(request) ==
  IF ~IsString(request.to) THEN Tried(TRUE, [kind |-> "error", message |-> MsgNotAFunction])
  ELSE IF request.to.chars = battleFactoryAddress
  THEN Tried(FALSE, Transaction(request.to, request.data))
  ELSE routed(Addr(forwarderAddress),
              encodeFunctionData(request.from, request.to, request.gas,
                                 Number(request.deadline), request.data, request.signature))

\* the body of the try block up to sendTransaction: the transaction to send,
\* or what was thrown on the way
route(request) ==
  IF ~IsString(request.to) THEN Tried(TRUE, [kind |-> "error", message |-> MsgNotAFunction])
  ELSE IF toLowerCase(request.to.chars) = toLowerCase(battleFactoryAddress)
  THEN Tried(FALSE, Transaction(request.to, request.data))
  ELSE routed(Addr(forwarderAddress),
              encodeFunctionData(request.from, request.to, request.gas,
                                 Number(request.deadline), request.data, request.signature))

\* where an entry point stands: pc is "received", "sending" or "answered",
\* sent the transactions handed to sendTransaction, log the calls of
\* sendTransaction and handleError in order
Entry(pc_, sent, answer, log) == [pc |-> pc_, sent |-> sent, answer |-> answer, log |-> log]
Sending(tx) == Entry("sending", <<tx>>, NoResponse, <<"sendTransaction">>)
Answered(answer, sent, log) == Entry("answered", sent, answer, log)

MissingFields == "Missing required fields: to and data"
Answer(status, body) == [threw |-> FALSE, status |-> status, body |-> body]

\* the catch block of the worker of src/index.ts on the caught value
workerCaught(e) ==
  IF handleError(e).threw THEN Thrown ELSE workerResponse(handleError(e).value)

\* the catch block of relay and the response the cloudflare worker makes of it
serviceCaught(e) ==
  IF handleError(e).threw THEN Thrown ELSE serviceResponse(handleError(e).value)

\* src/index.ts from the request body to the call of sendTransaction
workerBefore(request) ==
  LET workerRouted(r) ==
        IF r.threw THEN Answered(workerCaught(r.value), <<>>, <<"handleError">>)
        ELSE Sending(r.value)
  IN IF decodeCallData(request.data).threw THEN Answered(Thrown, <<>>, <<>>)
     ELSE IF ~Truthy(request.to) \/ ~Truthy(request.data)
     THEN Answered(Answer(400, [error |-> MissingFields]), <<>>, <<>>)
     ELSE workerRouted(route(request))

\* the cloudflare worker and relay from the request body to the call of
\* sendTransaction: the log line reads v.toString() and data.length, which
\* throw on undefined or null; a result without errorType equals neither
\* string of the status test
serviceBefore(request) ==
  LET NoMember(v) == IsUndefined(v) \/ IsNull(v)
      serviceRouted(r) ==
        IF r.threw THEN Answered(serviceCaught(r.value), <<>>, <<"handleError">>)
        ELSE Sending(r.value)
  IN IF NoMember(request.value) \/ NoMember(request.gas) \/ NoMember(request.deadline)
        \/ NoMember(request.data)
     THEN Answered(Thrown, <<>>, <<>>)
     ELSE IF decodeCallData(request.data).threw THEN Answered(Thrown, <<>>, <<>>)
     ELSE IF ~Truthy(request.to) \/ ~Truthy(request.data)
     THEN Answered(Answer(serviceStatus([errorType |-> ""]), [error |-> MissingFields]),
                   <<>>, <<>>)
     ELSE serviceRouted(route(request))

Entries == {"worker", "service"}

\* the requests: to absent, empty, the factory in three spellings, another
\* contract, no string; data absent, empty, a known call, an unknown call;
\* the fields of the forward request present or absent.  What sendTransaction
\* does: the hash, or one failure of every type
InitRelay ==
  LET ToValues ==
        {Undefined, Text(""), Num(5), Addr(battleFactoryAddress),
         Addr(toLowerCase(battleFactoryAddress)), Addr(<<"0", "x", "A", "B", "1", "2">>),
         Addr(<<"0", "x", "e", "F", "5", "6">>)}
      Requests ==
        [from : {Addr(<<"0", "x", "9", "9", "9", "9">>), Undefined}, to : ToValues,
         data : {Undefined, Text(""), ExecuteCall, UnknownHex},
         value : {Num(0), Undefined}, gas : {Num(21000), Undefined},
         deadline : {Num(99), Undefined}, signature : {Raw(65)}]
      SendFailures ==
        {Viem(<<OuterNode, Node("Rpc", "RPC Request failed.", "RPC Request failed. Details: invalid",
                                Undefined, Num(0 - 32602), Undefined, "")>>),
         Viem(<<OuterNode, Node("Rpc", "RPC Request failed.", "RPC Request failed. Details: reverted",
                                ExpiredRequest, Num(0 - 32000), Undefined, "")>>),
         Viem(<<OuterNode, Node("Rpc", "RPC Request failed.", "RPC Request failed. Details: reverted",
                                MismatchedValue, Num(0 - 32000), Undefined, "")>>),
         Viem(<<OuterNode, Node("Http", "HTTP request failed.", "HTTP request failed. Status: 503",
                                Undefined, Undefined, Num(503), "")>>),
         [kind |-> "error", message |-> MsgInvalid],
         [kind |-> "value", v |-> Bare]}
      SendResults ==
        {[ok |-> TRUE, hash |-> "0xhash", error |-> Undefined]}
        \cup {[ok |-> FALSE, hash |-> "", error |-> e] : e \in SendFailures}
  IN /\ error = [kind |-> "value", v |-> Undefined]
     /\ pc = "relay"
     /\ outcome = NoOutcome
     /\ registry = allABIs
     /\ call = <<>>
     /\ response = NoResponse
     /\ walker = <<>>
     /\ relay \in [request : Requests, result : SendResults,
                   at : {[e \in Entries |-> Entry("received", <<>>, NoResponse, <<>>)]}]

Move(e, to) ==
  /\ relay' = [relay EXCEPT !.at[e] = to]
  /\ UNCHANGED <<error, pc, outcome, registry, call, response, walker>>

\* the worker of src/index.ts takes the request up to the await of sendTransaction
WorkerReceive ==
  /\ relay.at["worker"].pc = "received"
  /\ Move("worker", workerBefore(relay.request))

\* sendTransaction settles: the hash is answered, or the catch block runs
WorkerSettle ==
  /\ relay.at["worker"].pc = "sending"
  /\ Move("worker",
          IF relay.result.ok
          THEN Answered(Answer(200, [transactionHash |-> relay.result.hash]), relay.at["worker"].sent,
                        relay.at["worker"].log)
          ELSE Answered(workerCaught(relay.result.error), relay.at["worker"].sent,
                        Append(relay.at["worker"].log, "handleError")))

\* the cloudflare worker hands the request to relay, which takes it up to
\* the await of sendTransaction
ServiceReceive ==
  /\ relay.at["service"].pc = "received"
  /\ Move("service", serviceBefore(relay.request))

\* sendTransaction settles: relay returns the hash or the error record and
\* the cloudflare worker answers it
ServiceSettle ==
  /\ relay.at["service"].pc = "sending"
  /\ Move("service",
          IF relay.result.ok
          THEN Answered(Answer(200, [transactionHash |-> relay.result.hash]), relay.at["service"].sent,
                        relay.at["service"].log)
          ELSE Answered(serviceCaught(relay.result.error), relay.at["service"].sent,
                        Append(relay.at["service"].log, "handleError")))

NextRelay == WorkerReceive \/ WorkerSettle \/ ServiceReceive \/ ServiceSettle

\* one request and one outcome of sendTransaction, served by both entry points
SpecRelay == InitRelay /\ [][NextRelay]_vars

Returned == pc = "done" /\ ~outcome.threw
TypeOK == pc \in {"caught", "done", "calls", "responded", "walking", "walked", "relay"}

\* ================================================================== claims
Types == {"network", "rpc", "contract", "validation", "unknown"}

Done == pc = "done"
DoneViem == pc = "done" /\ error.kind = "viem"
HasKind(chain, k) == \E i \in 1..Len(chain) : chain[i].kind = k
\* the first node of kind k
FirstOf(chain, k) ==
  chain[CHOOSE i \in 1..Len(chain) :
          chain[i].kind = k /\ \A j \in 1..(i - 1) : chain[j].kind # k]
HasHexNode(chain) == \E i \in 1..Len(chain) : IsHexString(chain[i].data)

\* the branches of handleViemError, by what the chain holds
HttpSelected == DoneViem /\ HasKind(error.chain, "Http")
RpcSelected == DoneViem /\ ~HasKind(error.chain, "Http") /\ HasKind(error.chain, "Rpc")
ContractSelected ==
  /\ DoneViem
  /\ ~HasKind(error.chain, "Http") /\ ~HasKind(error.chain, "Rpc")
  /\ HasKind(error.chain, "Contract")

\* C1: handleError never raises: whatever the failure is, the call returns a
\* UnifiedError record and no exception leaves it
C1_NeverRaises == Done => ~outcome.threw

\* C2: every call of handleError ends in exactly one of the five terminal
\* classifications network, rpc, contract, validation, unknown
C2_OneTerminalType ==
  Done => (outcome.threw = FALSE /\ Cardinality({t \in Types : outcome.value.type = t}) = 1)

\* C3: the kinds are tried in the order HTTP, RPC, contract revert, execution
\* revert, hex data; the first kind the chain holds decides the branch,
\* wherever its node stands in the chain
C3_FixedPrecedence ==
  DoneViem =>
    LET c == error.chain
    IN outcome.branch =
         (IF HasKind(c, "Http") THEN "network"
          ELSE IF HasKind(c, "Rpc") THEN "rpc"
          ELSE IF HasKind(c, "Contract") THEN "contract"
          ELSE IF HasKind(c, "Exec") THEN "execution"
          ELSE IF HasHexNode(c) THEN "data"
          ELSE "none")
       /\ (HasKind(c, "Http") => outcome.threw = FALSE /\ outcome.value.type = "network")

\* an execution revert that stands above a contract revert in the chain is
\* still handled by the contract-revert branch
C3_Witness ==
  /\ DoneViem
  /\ Len(error.chain) = 3
  /\ error.chain[1].kind = "Exec"
  /\ error.chain[2].kind = "Contract"
  /\ error.chain[3].kind = "Base"
  /\ outcome.branch = "contract"

\* the value the RPC branch takes as revert data of an RPC node: the string
\* itself, or the data field of an object
RpcData(node) ==
  IF IsString(node.data) THEN node.data
  ELSE IF IsObject(node.data) /\ node.data.hasData THEN node.data.data
  ELSE Undefined

\* C4 (as claimed): with an RPC node and a contract-revert node in the chain
\* and no HTTP node, the result has type contract and reports the
\* contract-revert node (its reason or its decoded error)
C4_ContractDominates ==
  (RpcSelected /\ HasKind(error.chain, "Contract")) =>
    /\ outcome.threw = FALSE
    /\ outcome.value.type = "contract"
    /\ outcome.value.message = decodeContractError(FirstOf(error.chain, "Contract")).value.message

\* C4 (amended): with an RPC node and a contract-revert node in the chain and
\* no HTTP node, the RPC node alone decides: the result has type contract
\* exactly when the RPC node's own revert data decodes, and then reports that
\* decoded error; otherwise it has type rpc with the RPC code; the reason and
\* the data of the contract-revert node are not reported
C4_RpcDecides ==
  (RpcSelected /\ HasKind(error.chain, "Contract")) =>
    LET rpc == FirstOf(error.chain, "Rpc")
        v == outcome.value
    IN /\ outcome.threw = FALSE
       /\ v.type = (IF IsNull(decodeError(RpcData(rpc))) THEN "rpc" ELSE "contract")
       /\ v.details.rpcError.code = rpc.code
       /\ "nestedErrors" \notin DOMAIN v.details
       /\ v.type = "rpc" => v.code = rpc.code /\ DOMAIN v.details = {"rpcError"}
       /\ v.type = "contract" => v.message = revertMessage(v.details.decodedError)

\* a contract revert with a reason above an RPC node whose data does not
\* decode is reported as type rpc
C4_Witness ==
  /\ RpcSelected
  /\ Len(error.chain) = 2
  /\ error.chain[1].kind = "Contract" /\ error.chain[1].reason = "Paused"
  /\ error.chain[2].kind = "Rpc" /\ error.chain[2].data = UnknownHex
  /\ outcome.value.type = "rpc"
  /\ outcome.value.message = "RPC Request failed."

\* errors of the registry that are not the wrapper, as revert data
RealErrors == {ExpiredRequest, FailedCall, MismatchedValue}

\* the node whose data the selected branch decodes, when the chain is one
\* node or one node below the outer error
CarrierNode == error.chain[Len(error.chain)]
SingleCarrier ==
  /\ DoneViem
  /\ Len(error.chain) <= 2
  /\ Len(error.chain) = 2 => error.chain[1] = OuterNode
  /\ CarrierNode.kind \in {"Rpc", "Contract", "Exec", "Base"}
  /\ CarrierNode.reason = ""

\* C5: when the data-bearing node carries FailedCallWithMessage around the
\* encoding of a known error, the result has type contract,
\* details.decodedError names the inner error and so does the message, which
\* does not name the wrapper; for an RPC node with string data or object data,
\* a contract-revert node, an execution-revert node and a generic node
C5_WrapperUnwrapped ==
  \A real \in RealErrors :
    (/\ SingleCarrier
     /\ \/ CarrierNode.data = Wrap(real)
        \/ CarrierNode.kind = "Rpc" /\ CarrierNode.data = Obj(TRUE, Wrap(real), TRUE)) =>
      /\ outcome.threw = FALSE
      /\ outcome.value.type = "contract"
      /\ outcome.value.details.decodedError.errorName = decodeError(real).errorName
      /\ outcome.value.message \in
           {"Transaction reverted: " \o decodeError(real).errorName,
            revertMessage(decodeError(real)),
            "Contract reverted: " \o decodeError(real).errorName,
            "Execution reverted: " \o decodeError(real).errorName}

\* some field of the details holds the decoded wrapper
RetainsWrapper(details) ==
  \/ details.decodedError.errorName = WrapperName
  \/ /\ "nestedErrors" \in DOMAIN details
     /\ ~IsUndefined(details.nestedErrors)
     /\ \E i \in 1..Len(details.nestedErrors) :
          details.nestedErrors[i].details.decodedError.errorName = WrapperName

\* C6: when the decoded error is FailedCallWithMessage with an argument,
\* argument 0 is decoded once more; if that succeeds the message names the
\* inner error and the details still hold the decoded wrapper; if it fails the
\* wrapper stays the decoded error
C6_WrapperRetained ==
  \A inner \in LeafHex :
    (/\ SingleCarrier
     /\ CarrierNode.kind \in {"Rpc", "Contract"}
     /\ CarrierNode.data = Wrap(inner)) =>
      /\ outcome.threw = FALSE
      /\ outcome.value.type = "contract"
      /\ IF IsNull(decodeError(inner))
         THEN outcome.value.details.decodedError.errorName = WrapperName
         ELSE /\ outcome.value.message \in
                   {revertMessage(decodeError(inner)),
                    "Contract reverted: " \o decodeError(inner).errorName}
              /\ RetainsWrapper(outcome.value.details)

\* the bytes arguments of a decoded error, as hex strings
BytesOf(decoded) ==
  IF IsNull(decoded) THEN {}
  ELSE {decoded.args[i].b : i \in {j \in 1..Len(decoded.args) : decoded.args[j].t = "bytes"}}

\* C7: when the RPC node is the selected match: if its revert data decodes,
\* the result has type contract and its details hold the selector, the data,
\* the decoded error and the RPC code, message and data; otherwise the result
\* has type rpc, the RPC code as code, the short message or "RPC request
\* failed" as message, and details that hold the RPC code, message and data only
C7_RpcBranch ==
  RpcSelected =>
    LET rpc == FirstOf(error.chain, "Rpc")
        v == outcome.value
        raw == [code |-> rpc.code, message |-> rpc.message, data |-> rpc.data]
        whole == decodeError(RpcData(rpc))
    IN /\ outcome.threw = FALSE
       /\ IF ~IsNull(whole)
          THEN /\ v.type = "contract"
               /\ DOMAIN v.details = {"selector", "data", "decodedError", "rpcError"}
               /\ v.details.rpcError = raw
               /\ v.details.data \in {RpcData(rpc)} \cup BytesOf(whole)
               /\ ~IsNull(v.details.decodedError)
               /\ v.details.selector = Slice10(v.details.data)
          ELSE /\ v.type = "rpc"
               /\ v.code = rpc.code
               /\ v.message = (IF rpc.shortMessage # "" THEN rpc.shortMessage
                               ELSE "RPC request failed")
               /\ v.details = [rpcError |-> raw]

\* an RPC node whose data is an object with revert data in its data field
C7_Witness ==
  /\ RpcSelected
  /\ FirstOf(error.chain, "Rpc").data = Obj(TRUE, ExpiredRequest, TRUE)
  /\ outcome.value.type = "contract"
  /\ outcome.value.details.rpcError.code = Num(0 - 32000)
  /\ outcome.value.details.decodedError.errorName = "ERC2771ForwarderExpiredRequest"

\* the strings of the arguments with ", " between them
RECURSIVE CommaList(_)
CommaList(args) ==
  IF Len(args) = 0 THEN ""
  ELSE IF Len(args) = 1 THEN ArgStr(args[1])
  ELSE CommaList(SubSeq(args, 1, Len(args) - 1)) \o ", " \o ArgStr(args[Len(args)])

RpcDecoded == RpcSelected /\ outcome.threw = FALSE /\ outcome.value.type = "contract"

\* C8 (as claimed): on a decoded revert in the RPC branch the message is
\* "Transaction reverted: " and the error name, directly followed by the
\* arguments in parentheses, joined with ", ", also when there are none
C8_NameThenParens ==
  RpcDecoded =>
    outcome.value.message =
      "Transaction reverted: " \o outcome.value.details.decodedError.errorName
        \o "(" \o CommaList(outcome.value.details.decodedError.args) \o ")"

\* C8 (amended): on a decoded revert in the RPC branch the message is
\* "Transaction reverted: <errorName>" alone when the error has no arguments,
\* and "Transaction reverted: <errorName> (<arg0>, <arg1>, ...)", with one
\* space between the name and the parenthesis, when it has some
C8_MessageFormat ==
  RpcDecoded =>
    LET d == outcome.value.details.decodedError
    IN outcome.value.message =
         (IF Len(d.args) = 0 THEN "Transaction reverted: " \o d.errorName
          ELSE "Transaction reverted: " \o d.errorName \o " (" \o CommaList(d.args) \o ")")

\* a decoded error with two arguments
C8_Witness ==
  /\ RpcDecoded
  /\ FirstOf(error.chain, "Rpc").data = MismatchedValue
  /\ outcome.value.message = "Transaction reverted: ERC2771ForwarderMismatchedValue (1, 2)"

\* C9: with an HTTP node in the chain the result has type network, the message
\* "Network request failed" and the HTTP status as code, and decodeError is
\* not called, whatever revert data the other nodes carry
C9_HttpBranch ==
  HttpSelected =>
    /\ outcome.threw = FALSE
    /\ outcome.value.type = "network"
    /\ outcome.value.message = "Network request failed"
    /\ outcome.value.code = FirstOf(error.chain, "Http").status
    /\ outcome.calls = <<>>

\* status 503 below an RPC node that carries decodable revert data
C9_Witness ==
  /\ HttpSelected
  /\ Len(error.chain) = 2
  /\ error.chain[1].kind = "Rpc" /\ error.chain[1].data = ExpiredRequest
  /\ error.chain[2].status = Num(503)
  /\ outcome.value.type = "network"
  /\ outcome.value.code = Num(503)

\* C10: when the contract-revert node is the selected match the result always
\* has type contract: with a reason the message is "Contract reverted:
\* <reason>" and nothing is decoded; otherwise the data is decoded and the
\* message names the decoded error, or the nested one with nestedErrors in the
\* details when the wrapper was unwrapped; without data, or when the decode
\* fails, the message is "Contract reverted with unknown error"
C10_ContractBranch ==
  ContractSelected =>
    LET c == FirstOf(error.chain, "Contract")
        v == outcome.value
        decoded == decodeError(c.data)
        nested == IF IsNull(decoded) \/ decoded.errorName # WrapperName THEN Null
                  ELSE decodeError(decoded.args[1].b)
    IN /\ outcome.threw = FALSE
       /\ v.type = "contract"
       /\ IF c.reason # ""
          THEN v.message = "Contract reverted: " \o c.reason /\ outcome.calls = <<>>
          ELSE IF IsNull(decoded)
          THEN v.message = "Contract reverted with unknown error"
          ELSE IF IsNull(nested)
          THEN v.message = "Contract reverted: " \o decoded.errorName
          ELSE /\ v.message = "Contract reverted: " \o nested.errorName
               /\ v.details.nestedErrors[1].details.decodedError = nested

ExecSelected ==
  /\ DoneViem
  /\ ~HasKind(error.chain, "Http") /\ ~HasKind(error.chain, "Rpc")
  /\ ~HasKind(error.chain, "Contract")
  /\ HasKind(error.chain, "Exec")

\* the position of the first node of kind k
FirstAt(chain, k) ==
  CHOOSE i \in 1..Len(chain) : chain[i].kind = k /\ \A j \in 1..(i - 1) : chain[j].kind # k

\* the positions from at on whose node exposes data
Exposing(chain, at) == {i \in at..Len(chain) : Truthy(chain[i].data)}

\* C11: when the execution-revert node is the selected match the result has
\* type contract; the first node from that node on that exposes data gives the
\* revert data: when there is one and its data decodes, the message is
\* "Execution reverted: <errorName>" and the details hold selector, data and
\* decoded error; otherwise the message is the node's own message, or
\* "Execution reverted" when it has none, and there are no details
C11_ExecutionBranch ==
  ExecSelected =>
    LET c == error.chain
        at == FirstAt(c, "Exec")
        found == Exposing(c, at)
        data == IF found = {} THEN Undefined
                ELSE c[CHOOSE i \in found : \A j \in found : i <= j].data
        decoded == decodeError(data)
        v == outcome.value
    IN /\ outcome.threw = FALSE
       /\ v.type = "contract"
       /\ IF found # {} /\ ~IsNull(decoded)
          THEN /\ v.message = "Execution reverted: " \o decoded.errorName
               /\ v.details = [selector |-> Slice10(data), data |-> data,
                               decodedError |-> decoded]
          ELSE /\ v.message = (IF c[at].message # "" THEN c[at].message
                               ELSE "Execution reverted")
               /\ v.details = Undefined

\* the data that decodes stands on the cause of the execution revert, and
\* data above the execution revert is passed over
C11_Witness ==
  /\ ExecSelected
  /\ Len(error.chain) = 3
  /\ error.chain[1].kind = "Base" /\ error.chain[1].data = UnknownHex
  /\ error.chain[2].kind = "Exec" /\ error.chain[2].data = Undefined
  /\ error.chain[3].data = ExpiredRequest
  /\ outcome.value.message = "Execution reverted: ERC2771ForwarderExpiredRequest"

\* no node of the chain is of one of the four kinds the branches look for
NoneSelected ==
  /\ DoneViem
  /\ \A i \in 1..Len(error.chain) : error.chain[i].kind = "Base"

\* the positions whose node exposes a hex string as data
HexAt(chain) == {i \in 1..Len(chain) : IsHexString(chain[i].data)}

\* C12: for a chain without HTTP, RPC, contract-revert and execution-revert
\* node: when a node exposes a hex string as data and the data of the first
\* such node decodes, the result has type contract; when that decode fails or
\* no node has such data, the result has type unknown, the short message of
\* the outer failure (its message when it has no short message) as message,
\* no details and no code
C12_DataOrUnknown ==
  NoneSelected =>
    LET c == error.chain
        hex == HexAt(c)
        data == IF hex = {} THEN Undefined
                ELSE c[CHOOSE i \in hex : \A j \in hex : i <= j].data
        decoded == decodeError(data)
        v == outcome.value
    IN /\ outcome.threw = FALSE
       /\ IF hex # {} /\ ~IsNull(decoded)
          THEN /\ v.type = "contract"
               /\ v.details.decodedError = decoded
          ELSE /\ v.type = "unknown"
               /\ v.message = (IF c[1].shortMessage # "" THEN c[1].shortMessage
                               ELSE c[1].message)
               /\ v.details = Undefined
               /\ v.code = Undefined

\* the first hex data does not decode, data that would decode stands below it
C12_Witness ==
  /\ NoneSelected
  /\ Len(error.chain) = 3
  /\ error.chain[1].data = Undefined
  /\ error.chain[2].data = UnknownHex
  /\ error.chain[3].data = ExpiredRequest
  /\ outcome.value.type = "unknown"
  /\ outcome.value.message = "Transaction failed."

DoneStandard == pc = "done" /\ error.kind = "error"

\* sub occurs in chars, found by trying every suffix of chars
RECURSIVE Occurs(_, _)
Occurs(sub, chars) ==
  IF Len(chars) < Len(sub) THEN FALSE
  ELSE SubSeq(chars, 1, Len(sub)) = sub \/ Occurs(sub, Tail(chars))

\* C13: a plain Error is classified by its message alone: with "fetch" or
\* "network" in it the type is network; otherwise with "Missing required
\* fields" or "Invalid" in it the type is validation and the message is
\* unchanged; otherwise the type is unknown and the message is unchanged; a
\* message of both groups is network
C13_StandardByMessage ==
  DoneStandard =>
    LET m == error.message
        net == Occurs(Fetch, m) \/ Occurs(Network, m)
        val == Occurs(MissingRequiredFields, m) \/ Occurs(Invalid, m)
        v == outcome.value
    IN /\ outcome.threw = FALSE
       /\ v.type = (IF net THEN "network" ELSE IF val THEN "validation" ELSE "unknown")
       /\ ~net => v.message = Str(m)
       /\ (m = MsgMissing) =>
            (v.type = "validation" /\ v.message = "Missing required fields: to and data")

\* a message of both groups
C13_Witness ==
  /\ DoneStandard
  /\ error.message = MsgInvalidNetwork
  /\ outcome.value.type = "network"

DoneValue == pc = "done" /\ error.kind = "value"

\* C14: for a thrown value that is no Error (null, undefined, a string, a
\* number, a plain object) handleError returns type unknown with the string
\* representation of the value as message, no code and no details
C14_ValueIsUnknown ==
  DoneValue =>
    LET v == error.v
    IN /\ outcome.threw = FALSE
       /\ outcome.value.type = "unknown"
       /\ outcome.value.code = Undefined
       /\ outcome.value.details = Undefined
       /\ IsNull(v) => outcome.value.message = "null"
       /\ IsUndefined(v) => outcome.value.message = "undefined"
       /\ IsNumber(v) => outcome.value.message = ToString(v.n)
       /\ (IsString(v) /\ v.h = "text") => outcome.value.message = v.s
       /\ IsObject(v) => outcome.value.message = "[object Object]"

\* C15: every record handleError returns holds as originalError the failure
\* that was passed in, the outermost one and not the node that matched, and
\* the failure itself never leaves the call as an exception
C15_OriginalKept ==
  Done =>
    IF outcome.threw THEN outcome.value # error
    ELSE outcome.value.originalError = error

\* the node that matched is the cause of the cause of the failure
C15_Witness ==
  /\ DoneViem
  /\ Len(error.chain) = 3
  /\ error.chain[1].kind = "Base" /\ error.chain[2].kind = "Base"
  /\ error.chain[3].kind = "Http"
  /\ outcome.threw = FALSE
  /\ outcome.value.type = "network"
  /\ outcome.value.originalError = error

\* handler h has made its call op
Called(h, op) == call[h].pc = "done" /\ call[h].op = op

\* revert data that is no encoding of a known error: shorter than a selector,
\* unknown selector, arguments cut off, no hex string at all
BadErrorData == {EmptyHex, ShortHex, UnknownHex, TruncatedHex, Text("hello"), Undefined}
\* the same for call data
BadCallData == {EmptyHex, ShortHex, UnknownHex, TruncatedCall, Text("hello"), Undefined}

\* C16: the decode operations return a failure value and never raise:
\* decodeError returns null for data shorter than a selector, with an unknown
\* selector, with the arguments cut off or that is no hex string at all, and
\* decodeCallData returns its failure record in the same cases
C16_DecodeNeverRaises ==
  \A h \in DOMAIN call :
    /\ Called(h, "decodeError") =>
         /\ call[h].result.threw = FALSE
         /\ call[h].arg \in BadErrorData => IsNull(call[h].result.value)
    /\ Called(h, "decodeCallData") =>
         /\ call[h].result.threw = FALSE
         /\ call[h].arg \in BadCallData => call[h].result.value.functionName = "unknown"

\* the functions of the list
FunctionSelectors == {registry[i].sel : i \in {j \in 1..Len(registry) : registry[j].type = "function"}}

\* C17: for call data whose selector is the selector of no function of the
\* list decodeCallData returns the failure record: functionName "unknown", no
\* arguments, the selector (the first 10 characters of the data), the data as
\* it came and the error text of the decoder; it does not raise
C17_UnknownSelectorRecord ==
  \A h \in DOMAIN call :
    (/\ Called(h, "decodeCallData")
     /\ IsHexString(call[h].arg) /\ call[h].arg.h = "enc"
     /\ call[h].arg.sel \notin FunctionSelectors) =>
       /\ call[h].result.threw = FALSE
       /\ call[h].result.value =
            [functionName |-> "unknown", args |-> <<>>,
             selector |-> "0x" \o SelHex(call[h].arg.sel),
             rawData |-> call[h].arg,
             error |-> "AbiFunctionSignatureNotFoundError"]

\* the selector of an error is no selector of a function
C17_Witness ==
  \E h \in DOMAIN call :
    /\ Called(h, "decodeCallData")
    /\ call[h].arg = FailedCall
    /\ call[h].result.value.selector = "0x00000003"
    /\ call[h].result.value.functionName = "unknown"

\* the entries of the list that are errors with the selector sel
ErrorsWith(sel) == {i \in 1..Len(registry) : registry[i].type = "error" /\ registry[i].sel = sel}

\* C18: the lookup by selector takes the first match: data whose selector two
\* entries of the merged list share decodes to the entry that comes first in
\* the list, the same on every call, and the decode does not fail because the
\* selector occurs twice
C18_FirstMatchWins ==
  \A h \in DOMAIN call :
    (/\ Called(h, "decodeError")
     /\ IsHexString(call[h].arg) /\ call[h].arg.h = "enc"
     /\ Cardinality(ErrorsWith(call[h].arg.sel)) > 1
     /\ Len(call[h].arg.args) = Len(registry[CHOOSE i \in ErrorsWith(call[h].arg.sel) : TRUE].inputs)) =>
       /\ call[h].result.threw = FALSE
       /\ ~IsNull(call[h].result.value)
       /\ \A i \in ErrorsWith(call[h].arg.sel) : call[h].result.value.abiItem <= i
       /\ \A g \in DOMAIN call :
            (Called(g, "decodeError") /\ call[g].arg = call[h].arg) =>
              call[g].result = call[h].result

\* both handlers decode data with the selector that two entries share
C18_Witness ==
  /\ DOMAIN call = Handlers
  /\ \A h \in Handlers :
       /\ Called(h, "decodeError")
       /\ call[h].arg = FailedCall
       /\ call[h].result.value.errorName = "FailedCall"
       /\ call[h].result.value.abiItem = 1
  /\ ErrorsWith(FailedCall.sel) = {1, 5}

\* what the call op returns for arg when it is the only call that is made
Alone(op, arg) ==
  IF op = "decodeError" THEN [threw |-> FALSE, value |-> decodeError(arg)]
  ELSE IF op = "decodeCallData" THEN decodeCallData(arg)
  ELSE returnOf(handleError(arg))

\* every call that was made returned what it returns alone
SameAsAlone ==
  \A h \in DOMAIN call :
    call[h].pc = "done" => call[h].result = Alone(call[h].op, call[h].arg)

\* a step leaves the list and the results of the calls already made as they are
WritesOwnResultOnly ==
  /\ registry' = registry
  /\ \A h \in DOMAIN call : call[h].pc = "done" => call'[h] = call[h]

Responded == pc = "responded"

\* the status the claim gives for a type and a code
StatusOf(type, code) ==
  IF type = "validation" THEN 400
  ELSE IF type = "network" THEN 503
  ELSE IF type = "rpc" /\ code \in {Num(0 - 32600), Num(0 - 32602)} THEN 400
  ELSE 500

\* C20: the status of an error response is a function of the type and the
\* code of the unified error: validation 400, network 503, rpc with code
\* -32600 or -32602 400, everything else 500; the body is error, errorType
\* and errorDetails
C20_StatusByTypeAndCode ==
  Responded =>
    /\ response.threw = FALSE
    /\ response.status = StatusOf(outcome.value.type, outcome.value.code)
    /\ response.body = [error |-> outcome.value.message, errorType |-> outcome.value.type,
                        errorDetails |-> outcome.value.details]

\* ------------------------------------------------------------------- C22
\* the first node of the chain at which predicate k holds, 0 when there is none
FirstMatch(e, k) ==
  walk(e.chain, 1, [i \in DOMAIN e.chain |-> walkPredicates(e.chain[i])[k]])

\* C22: walking the cause chain always terminates, also on a chain whose
\* cause relation has a cycle: every walk returns the first matching node or
\* none, no walk ends in an exception, and so handleError returns
C22_WalkTerminates ==
  /\ pc \in {"walking", "walked", "done"} =>
       \A k \in 1..Len(walker.found) : walker.found[k] = FirstMatch(error, k)
  /\ pc = "done" => ~outcome.threw

\* ------------------------------------------------------------------- C23
\* the byte strings among the arguments of the error that b decodes to
BytesBelow(b, decoded) ==
  IF IsNull(decoded) THEN {}
  ELSE {decoded.args[i].b : i \in {j \in 1..Len(decoded.args) : decoded.args[j].t = "bytes"}}

\* the data at most k decode levels below the data in S
RECURSIVE Levels(_, _)
Levels(S, k) ==
  IF k = 0 THEN S
  ELSE S \cup Levels(UNION {BytesBelow(b, decodeError(b)) : b \in S}, k - 1)

\* the number of arguments of the error that b decodes to
ArgCount(decoded) == IF IsNull(decoded) THEN 0 ELSE Len(decoded.args)

DecodedIn(details) ==
  IF "decodedError" \in DOMAIN details THEN details.decodedError ELSE Undefined

\* C23: unwrapping is bounded: in one call of handleError every decode is of
\* data at most two levels below the original revert data, the reported error
\* is the decode of such data, and the number of decodes is at most three plus
\* the number of arguments of the outermost decoded error
C23_BoundedUnwrap ==
  (DoneViem /\ ~outcome.threw /\ outcome.calls # <<>>) =>
    /\ \A i \in 1..Len(outcome.calls) : outcome.calls[i] \in Levels({outcome.calls[1]}, 2)
    /\ Len(outcome.calls) <= 3 + ArgCount(decodeError(outcome.calls[1]))
    /\ "errorName" \in DOMAIN DecodedIn(outcome.value.details) =>
         \E b \in Levels({outcome.calls[1]}, 2) :
           DecodedIn(outcome.value.details) = decodeError(b)

\* revert data wrapped three times on an RPC node: the scan and the unwrap
\* each went down one level and the second wrapper is what is reported
C23_Witness ==
  /\ DoneViem /\ ~outcome.threw
  /\ outcome.branch = "rpc"
  /\ outcome.calls = <<WrapN(ExpiredRequest, 3), WrapN(ExpiredRequest, 2),
                       WrapN(ExpiredRequest, 2), Wrap(ExpiredRequest)>>
  /\ outcome.value.details.decodedError = decodeError(Wrap(ExpiredRequest))

\* ------------------------------------------------------------------- C24
\* the data of the RPC node the branch works on
RpcNodeData == FirstOf(error.chain, "Rpc").data

\* the RPC branch ran the scan: the RPC data is a hex string of more than 138
\* characters that decodes to an error with arguments
ScanRan ==
  /\ DoneViem /\ ~outcome.threw /\ outcome.branch = "rpc"
  /\ IsHexString(RpcNodeData)
  /\ StrLen(RpcNodeData) > 138
  /\ ArgCount(decodeError(RpcNodeData)) > 0

\* arg is a hex string of at least 10 characters
Eligible(arg) == IsHexString(arg) /\ StrLen(arg) >= 10
\* the positions of the arguments the scan may decode, and of those that decode
EligibleAt(args) == {i \in 1..Len(args) : Eligible(ArgJs(args[i]))}
HitAt(args) == {i \in EligibleAt(args) : ~IsNull(decodeError(ArgJs(args[i])))}
FirstHit(args) == CHOOSE i \in HitAt(args) : \A j \in HitAt(args) : i <= j

\* the eligible arguments among the first n, in order
RECURSIVE TriedUpTo(_, _)
TriedUpTo(args, n) ==
  IF n = 0 THEN <<>>
  ELSE TriedUpTo(args, n - 1)
       \o (IF Eligible(ArgJs(args[n])) THEN <<ArgJs(args[n])>> ELSE <<>>)

\* the scan ended at the argument hit, the one at position first, after the
\* decodes of tried
ScanHit(data, args, first, hit, tried) ==
  /\ SubSeq(outcome.calls, 1, 1 + Len(tried)) = <<data>> \o tried
  /\ outcome.calls[2 + Len(tried)] = hit
  /\ \A i \in 1..Len(args) :
       i > first /\ ArgJs(args[i]) # hit =>
         \A c \in 1..Len(outcome.calls) : outcome.calls[c] # ArgJs(args[i])
  /\ outcome.value.type = "contract"
  /\ outcome.value.details.data = hit
  /\ outcome.value.details.decodedError \in {decodeError(hit), nestedOf(decodeError(hit))}

\* no argument decoded: every eligible argument was tried and the candidate
\* is still the RPC data
ScanMiss(data, tried) ==
  /\ SubSeq(outcome.calls, 1, 2 + Len(tried)) = <<data>> \o tried \o <<data>>
  /\ outcome.value.type = "contract" => outcome.value.details.data = data

ScanOrder(data, args) ==
  IF HitAt(args) # {}
  THEN ScanHit(data, args, FirstHit(args), ArgJs(args[FirstHit(args)]),
               TriedUpTo(args, FirstHit(args)))
  ELSE ScanMiss(data, TriedUpTo(args, Len(args)))

\* C24: the nested scan examines the arguments in order; the first argument
\* that is a hex string of at least 10 characters and decodes replaces the
\* candidate, data and decoded error both; the arguments after it are never
\* decoded, and a hex argument that does not decode does not stop the scan
C24_FirstDecodableArgument ==
  ScanRan => ScanOrder(RpcNodeData, decodeError(RpcNodeData).args)

\* the first argument has an unknown selector and the second decodes
C24_Witness ==
  /\ ScanRan
  /\ RpcNodeData = Pair(UnknownHex, ExpiredRequest)
  /\ outcome.calls = <<Pair(UnknownHex, ExpiredRequest), UnknownHex, ExpiredRequest,
                       ExpiredRequest>>
  /\ outcome.value.details.data = ExpiredRequest

\* ------------------------------------------------------------------- C25
RpcDone == DoneViem /\ ~outcome.threw /\ outcome.branch = "rpc"

\* The decodes of the RPC branch without the scan are the direct decode and
\* the decode of argument 0 of a wrapper, which differs from the data it is
\* an argument of.  With the scan the data is decoded for the wrapper check
\* first, and the direct decode of the data or of the replacement follows.
ScanAttempted(calls) ==
  \/ Len(calls) >= 3
  \/ Len(calls) = 2 /\ calls[1] = calls[2]

\* C25: the scan is attempted exactly when the RPC data is a hex string of
\* more than 68 bytes; data of 68 bytes or less is decoded directly only, and
\* so is the data field of an object, whatever its length
C25_ScanThreshold ==
  RpcDone =>
    (ScanAttempted(outcome.calls) <=> (IsHexString(RpcNodeData) /\ ByteLen(RpcNodeData) > 68))

\* a wrapper with an empty payload is exactly 68 bytes long: it is decoded
\* directly and its argument is tried once, by the unwrap
C25_Witness ==
  /\ RpcDone
  /\ RpcNodeData = Wrap(EmptyHex)
  /\ ByteLen(RpcNodeData) = 68
  /\ outcome.calls = <<Wrap(EmptyHex), EmptyHex>>

\* ------------------------------------------------------------------- C29
\* the result carries a selector and the data it was taken from; every branch
\* sets the two together with the decoded error
HasSelector ==
  /\ Done /\ ~outcome.threw
  /\ "errorName" \in DOMAIN DecodedIn(outcome.value.details)

\* the hex digits of a byte string after its selector
DigitsAfterSelector(b) == HeadDigits(b.args, b.args, 32 * Len(b.args)) \o TailDigits(b.args)

\* the selector of the entry a decoded error was matched with, as a hex string
SelectorOf(decoded) == "0x" \o SelHex(allABIs[decoded.abiItem].sel)

\* C29: details.selector is the first 10 characters of details.data, and in
\* a result of type contract with a decoded error it is the selector of the
\* error that details.decodedError names
C29_SelectorOfDecoded ==
  HasSelector =>
    /\ Len(outcome.value.details.selector) = 10
    /\ HexStr(outcome.value.details.data)
         = outcome.value.details.selector \o DigitsAfterSelector(outcome.value.details.data)
    /\ outcome.value.type = "contract" =>
         outcome.value.details.selector = SelectorOf(outcome.value.details.decodedError)

\* ------------------------------------------------------------------- C30
Result == Done /\ ~outcome.threw

\* C30: the top-level code is set only on a network result that comes from
\* an HTTP node, where it is the HTTP status, and on an rpc result, where it
\* is the RPC code; contract, validation and unknown results carry no code,
\* and a decoded RPC revert has its RPC code in details.rpcError only
C30_CodeOnlyOnNetworkAndRpc ==
  Result =>
    /\ outcome.value.type \in {"contract", "validation", "unknown"} =>
         outcome.value.code = Undefined
    /\ outcome.value.code # Undefined =>
         \/ /\ outcome.value.type = "network"
            /\ outcome.branch = "network"
            /\ outcome.value.code = FirstOf(error.chain, "Http").status
         \/ /\ outcome.value.type = "rpc"
            /\ outcome.value.code = FirstOf(error.chain, "Rpc").code
    /\ outcome.branch = "standard" => outcome.value.code = Undefined
    /\ outcome.branch = "rpc" /\ outcome.value.type = "contract" =>
         outcome.value.details.rpcError.code = FirstOf(error.chain, "Rpc").code

\* an RPC failure whose revert data decodes: no top-level code, the RPC code
\* in the details
C30_Witness ==
  /\ Result
  /\ outcome.branch = "rpc"
  /\ outcome.value.type = "contract"
  /\ outcome.value.code = Undefined
  /\ outcome.value.details.rpcError.code = Num(0 - 32000)

\* ------------------------------------------------------------------- C21
\* the two cases of one letter
CasePairs ==
  {<<"a", "A">>, <<"b", "B">>, <<"c", "C">>, <<"d", "D">>, <<"e", "E">>, <<"f", "F">>,
   <<"x", "X">>}
SameIgnoringCase(a, b) ==
  /\ Len(a) = Len(b)
  /\ \A i \in 1..Len(a) :
       a[i] = b[i] \/ <<a[i], b[i]>> \in CasePairs \/ <<b[i], a[i]>> \in CasePairs

ToFactory(request) ==
  IsAddress(request.to) /\ SameIgnoringCase(request.to.chars, battleFactoryAddress)

\* the call of execute over the fields of the request
ExecuteOver(request) ==
  [h |-> "call", functionName |-> "execute",
   args |-> [from |-> request.from, to |-> request.to, value |-> Num(0), gas |-> request.gas,
             deadline |-> request.deadline, data |-> request.data,
             signature |-> request.signature]]

\* every field is there and has the type of the forward request
WellFormed(request) ==
  /\ IsAddress(request.from) /\ IsAddress(request.to)
  /\ IsHexString(request.data) /\ IsHexString(request.signature)
  /\ IsNumber(request.value) /\ IsNumber(request.gas) /\ IsNumber(request.deadline)

RoutedAt(at, request) ==
  /\ \A i \in 1..Len(at.sent) :
       at.sent[i] = IF ToFactory(request) THEN Transaction(request.to, request.data)
                    ELSE Transaction(Addr(forwarderAddress), ExecuteOver(request))
  /\ at.pc # "received" /\ WellFormed(request) => Len(at.sent) = 1

\* C21: a request is routed by its to address: when to is the BattleFactory
\* address, compared without regard to case, the transaction goes to to with
\* the data of the request unchanged; otherwise it goes to the forwarder with
\* the call of execute over from, to, gas, deadline, data and signature; no
\* transaction goes anywhere else, in either entry point
C21_RoutedByTo == \A e \in Entries : RoutedAt(relay.at[e], relay.request)

\* the factory address written in capitals is sent to directly by both entry
\* points, and another address has gone to the forwarder
C21_Witness ==
  /\ relay.request.to = Addr(<<"0", "x", "A", "B", "1", "2">>)
  /\ relay.request.to.chars # battleFactoryAddress
  /\ \A e \in Entries :
       relay.at[e].sent = <<Transaction(relay.request.to, relay.request.data)>>

\* ------------------------------------------------------------------- C26
\* a field that is absent or empty
Missing(v) == v \in {Undefined, Null, Text("")}

RejectedAt(at) ==
  /\ at.answer.threw = FALSE
  /\ at.answer.status = 400
  /\ at.answer.body = [error |-> MissingFields]
  /\ at.sent = <<>>

\* C26: a request whose to or data is absent or empty is rejected before a
\* transaction is built: both entry points answer the error "Missing
\* required fields: to and data" with status 400, sendTransaction is not
\* called and no exception leaves the handler
C26_MissingFieldsRejected ==
  \A e \in Entries :
    (/\ relay.at[e].pc = "answered"
     /\ Missing(relay.request.to) \/ Missing(relay.request.data)) => RejectedAt(relay.at[e])

\* ------------------------------------------------------------------- C27
BothAnswered == \A e \in Entries : relay.at[e].pc = "answered"

SameAnswer(a, b) ==
  /\ a.threw = b.threw
  /\ ~a.threw => (a.status = b.status /\ a.body = b.body)

\* C27: the two entry points are equivalent: for the same request and the
\* same outcome of sendTransaction they answer the same status and the same
\* body, be it the transaction hash or error, errorType and errorDetails
C27_EntryPointsAgree ==
  BothAnswered => SameAnswer(relay.at["worker"].answer, relay.at["service"].answer)

\* ------------------------------------------------------------------- C28
\* the number of calls of op in a log
Count(log, op) == Cardinality({i \in 1..Len(log) : log[i] = op})

OneResultAt(at, result) ==
  /\ Len(at.sent) <= 1
  /\ Count(at.log, "sendTransaction") = Len(at.sent)
  /\ Count(at.log, "handleError") <= 1
  /\ \A i, j \in 1..Len(at.log) :
       at.log[i] = "handleError" /\ at.log[j] = "sendTransaction" => j < i
  /\ at.pc = "answered" =>
       /\ at.answer.threw = FALSE
       /\ at.sent # <<>> /\ result.ok => at.answer.body = [transactionHash |-> result.hash]
       /\ at.sent # <<>> /\ ~result.ok =>
            /\ at.log = <<"sendTransaction", "handleError">>
            /\ DOMAIN at.answer.body = {"error", "errorType", "errorDetails"}

\* C28: a relay request causes at most one call of sendTransaction and
\* exactly one result, the transaction hash when the send succeeds and an
\* error record when it fails; a failed send, of type network or any other,
\* is not retried, and the failure is classified once, after the send
C28_OneSendOneResult == \A e \in Entries : OneResultAt(relay.at[e], relay.result)

====
